---- MODULE Spec2Model ----
(***************************************************************************)
(* Verification model of the conversational assistant's core:             *)
(*   - the hierarchical vector memory store                               *)
(*     (python-backend/hierarchical-vector-schema.sql): three tables,     *)
(*     three similarity searches and the access-bookkeeping update;       *)
(*   - the turn pipeline of the chat backend (agent-mode switch, intent   *)
(*     routing, agent execution, turn recording) as documented in         *)
(*     README.md and CREWAI_OPTIMIZATION_COMPREHENSIVE_ANALYSIS.md.       *)
(*                                                                         *)
(* Similarities, distances and thresholds are modelled in exact            *)
(* hundredths: 1.0 is One (100), a similarity of 0.7 is 70.  Importance    *)
(* scores are PostgreSQL FLOAT (float8) values and keep their IEEE 754     *)
(* double-precision rounding.                                              *)
(***************************************************************************)
EXTENDS Integers, Sequences, FiniteSets, TLC

VARIABLES
    userMem,      \* table user_memory_vectors: sequence of rows, id = position
    convMem,      \* table conversation_memory_vectors
    summaries,    \* table conversation_summaries
    hist,         \* per user-memory row: values at creation and number of access calls
    lastOp,       \* the last store operation: its arguments, its caller and what it returned / modified
    call,         \* SpecSearch: the arguments the searches are applied to
    pc,           \* position of the turn being processed by the chat backend
    req,          \* the chat request of the turn
    appIntent,    \* app_intent: the service detected for the turn, or None
    kickoffs,     \* the agents kicked off during the turn, in order
    resp,         \* the response of the turn
    recorded,     \* whether the turn has been written to conversation memory
    lastApp,      \* conversation history: the app the preceding turn used, or None
    turns,        \* number of turns received
    env,          \* what the turn's external collaborators did: token lookup, raised
                  \* exception, time the tool call has been blocking, store failure
    ctx,          \* SpecContext: the tier contributions and the contextual message built
    workers,      \* SpecWriters: the concurrent writers of the memory store
    client,       \* SpecProxy: state of the Chat component and the request posted
    proxy,        \* SpecProxy: what the /api/chat route answered and forwarded
    chatCtx,      \* ChatContext: the messages shown and the requests in flight
    api,          \* SpecMessages: a request to the conversation messages route and its answer
    dialog,       \* SpecConnect: a connect dialog, its popup, timers and listener
    oauth,        \* SpecOAuth: a request to the Gmail OAuth callback and the page it returned
    auth          \* SpecAuth: AuthContext state and localStorage

storeVars == <<userMem, convMem, summaries, hist, lastOp, call>>

turnVars == <<pc, req, appIntent, kickoffs, resp, recorded, lastApp, turns, env>>

pageVars == <<api, dialog, oauth, auth>>

sideVars == <<ctx, workers, client, proxy, chatCtx, api, dialog, oauth, auth>>

vars == <<userMem, convMem, summaries, hist, lastOp, call,
          pc, req, appIntent, kickoffs, resp, recorded, lastApp, turns, env,
          ctx, workers, client, proxy, chatCtx, api, dialog, oauth, auth>>

--------------------------------------------------------------------------
(* Bounds of the model *)

MaxUserMem == 2      \* rows created in user_memory_vectors by the dynamic specification
MaxAccess == 4       \* update_memory_access calls on existing rows in a run
MaxTurns == 2        \* turns processed by the turn specification
MaxRows == 62        \* size of the largest pre-populated store searched
MaxWait == 2         \* ticks a blocking tool call is followed for
MaxRecorded == 2     \* turns recorded by the concurrent writers
MaxSelected == 2     \* apps selected in the dropdown at a time
MaxMessages == 3     \* messages held in currentMessages
MaxLoads == 3        \* message loads in flight at a time
MaxCreated == 1      \* conversations created from the chat page
MaxChecks == 2       \* connection status requests of a dialog in flight at a time

(* Program constants; thresholds in hundredths *)

One == 100                 \* the literal 1 of "1 - match_threshold"
CapUser == 50              \* LIMIT least(match_count, 50)
CapConv == 20              \* LIMIT least(match_count, 20)
CapSummaries == 10         \* LIMIT least(match_count, 10)
DefaultThreshold == 70     \* match_threshold float DEFAULT 0.7
DefaultSummaryThreshold == 60   \* match_threshold float DEFAULT 0.6
DefaultCount == 10         \* match_count int DEFAULT 10
DefaultSummaryCount == 5   \* match_count int DEFAULT 5
ErrorTextLimit == 100      \* str(e)[:100]
ErrorPrefixChars == 24     \* len("Agent execution failed: ")
ErrorMessageMaxLength == 100   \* error_message: str = Field(max_length=100)
ContextLimit == 200        \* memory_context[:200]

--------------------------------------------------------------------------
(* Domains *)

None == "none"

Users == {"u1", "u2"}

MemoryTypes == {"preference", "fact", "context"}

Conversations == {"c1", "c2"}

\* Embedding vectors: integer vectors of Euclidean norm 5, so that cosine
\* similarity is an exact multiple of 1/25.
E1 == <<5, 0>>
E2 == <<4, 3>>
E3 == <<3, 4>>
E4 == <<0, 5>>
E5 == <<-5, 0>>

Embeddings == {E1, E2, E3, E4, E5}

Min(a, b) == IF a <= b THEN a ELSE b

Dot(a, b) == a[1] * b[1] + a[2] * b[2]

Norm(a) == CHOOSE n \in 0..10 : n * n = Dot(a, a)

\* pgvector's <=> operator: cosine distance 1 - cos(a, b), in hundredths (0..200)
CosineDistance(a, b) == One - ((One * Dot(a, b)) \div (Norm(a) * Norm(b)))

\* the public contract's similarity = 1 - distance
Similarity(a, b) == One - CosineDistance(a, b)

--------------------------------------------------------------------------
(* float8 arithmetic of the importance score.  A float8 value v in [0, 2)   *)
(* that is 0 or at least 2^-4 is the pair <<hi, lo>> with                   *)
(* v = (hi * 2^28 + lo) * 2^-56 and 0 <= lo < 2^28: every such double is a  *)
(* whole number of units of 2^-56.                                          *)

LimbBase == 2^28

Float8(hi, lo) == <<hi, lo>>

\* the float8 nearest to each decimal literal
ImportanceZero == Float8(0, 0)                      \* 0.0
ImportanceStep == Float8(26843545, 161061274)       \* 0.1  = 0x1.999999999999ap-4
DefaultImportance == Float8(134217728, 0)           \* 0.5  = 0x1.0p-1
ImportanceHigh == Float8(241591910, 107374184)      \* 0.9  = 0x1.ccccccccccccdp-1
ImportanceNearOne == Float8(255013683, 53687088)    \* 0.95 = 0x1.e666666666666p-1
ImportanceOne == Float8(LimbBase, 0)                \* 1.0  = 0x1.0p+0

\* carry of the low limb into the high limb
Float8Carry(hi, lo) == Float8(hi + (lo \div LimbBase), lo % LimbBase)

\* distance between neighbouring doubles around a value, in units of 2^-56:
\* 1 below 2^-3, doubling with each binade up to 16 in [1, 2)
Float8Spacing(hi) ==
    IF hi < 2^25 THEN 1
    ELSE IF hi < 2^26 THEN 2
    ELSE IF hi < 2^27 THEN 4
    ELSE IF hi < 2^28 THEN 8
    ELSE 16

\* IEEE 754 round-to-nearest, ties-to-even, of an exact value to a double
Float8Round(x) ==
    LET g == Float8Spacing(x[1])
        r == x[2] % g
        q == x[2] - r
        up == \/ 2 * r > g
              \/ 2 * r = g /\ (q \div g) % 2 = 1
    IN Float8Carry(x[1], IF up THEN q + g ELSE q)

\* float8 + float8
Float8Add(a, b) == Float8Round(Float8Carry(a[1] + b[1], a[2] + b[2]))

\* float8 * n for a small natural n
Float8Times(a, n) == Float8Round(Float8Carry(a[1] * n, a[2] * n))

Float8Leq(a, b) == a[1] < b[1] \/ (a[1] = b[1] /\ a[2] <= b[2])

\* LEAST(a, b)
Float8Least(a, b) == IF Float8Leq(a, b) THEN a ELSE b

\* |a - b| in units of 2^-56, saturating at 4 * 2^28 units (2^-26)
Float8Gap(a, b) ==
    LET dh == a[1] - b[1]
        d == dh * LimbBase + (a[2] - b[2])
    IN IF dh > 3 \/ dh < -3 THEN 4 * LimbBase
       ELSE IF d < 0 THEN -d ELSE d

--------------------------------------------------------------------------
(* The three tables *)

UserMemoryRow(id, u, t, imp, acc, e) ==
    [id |-> id, user_id |-> u, memory_type |-> t, importance_score |-> imp,
     access_count |-> acc, embedding |-> e]

ConversationMemoryRow(id, u, c, role, turn, e) ==
    [id |-> id, user_id |-> u, conversation_id |-> c, role |-> role,
     turn_number |-> turn, embedding |-> e]

ConversationSummaryRow(id, u, c, n, e) ==
    [id |-> id, user_id |-> u, conversation_id |-> c, message_count |-> n,
     summary_embedding |-> e]

\* Memory items the system creates: owner, kind, importance (DEFAULT 0.5 when
\* not given) and embedding.  The first one is the scenario of the testable
\* properties: a preference of importance 0.9.
MemoryItems ==
    { <<"u1", "preference", ImportanceHigh, E1>>,
      <<"u1", "fact", DefaultImportance, E2>>,
      <<"u1", "context", ImportanceNearOne, E1>>,
      <<"u2", "fact", ImportanceOne, E2>>,
      <<"u2", "preference", ImportanceZero, E3>> }

\* Pre-populated tables of n rows.  Rows 1 and 2 belong to u2, the others to
\* u1; embeddings cycle through E1, E2, E3 with every 13th row orthogonal (E4)
\* and every 17th row without embedding (NULL).
BulkEmbedding(i) ==
    IF i % 17 = 0 THEN None
    ELSE IF i % 13 = 0 THEN E4
    ELSE <<E1, E2, E3>>[(i % 3) + 1]

BulkUser(i) == IF i <= 2 THEN "u2" ELSE "u1"

BulkUserMem(n) ==
    [i \in 1..n |->
        UserMemoryRow(i, BulkUser(i), <<"preference", "fact", "context">>[(i % 3) + 1],
                      DefaultImportance, 0, BulkEmbedding(i))]

BulkConvMem(n) ==
    [i \in 1..n |->
        ConversationMemoryRow(i, BulkUser(i), IF i % 9 = 0 THEN "c2" ELSE "c1",
                              IF i % 2 = 1 THEN "user" ELSE "assistant",
                              i, BulkEmbedding(i))]

BulkSummaries(n) ==
    [i \in 1..n |-> ConversationSummaryRow(i, BulkUser(i), i, 2, BulkEmbedding(i))]

--------------------------------------------------------------------------
(* Similarity search *)

Take(s, n) == IF n >= Len(s) THEN s ELSE SubSeq(s, 1, n)

Reverse(s) == [i \in 1..Len(s) |-> s[Len(s) + 1 - i]]

\* Mutant of MatchesThreshold: the comparison written as <=
MatchesThresholdInclusive(e, q, th) ==
    /\ e # None
    /\ CosineDistance(e, q) <= One - th

\* WHERE ... <=> query_embedding < 1 - match_threshold.  A NULL embedding
\* makes the comparison NULL and the row is not selected.
MatchesThreshold(e, q, th) ==
    /\ e # None
    /\ CosineDistance(e, q) < One - th

\* Mutant of RowLimit: LIMIT match_count, the hard cap forgotten
RowLimitUncapped(match_count, cap) == match_count

\* LIMIT least(match_count, cap)
RowLimit(match_count, cap) == Min(match_count, cap)

RECURSIVE OrderByDistance(_)
\* ORDER BY distance ASC over <<row, distance>> entries: the entries of the
\* smallest distance first, in the order given.
OrderByDistance(keyed) ==
    IF keyed = <<>> THEN <<>>
    ELSE LET ds == {keyed[i].d : i \in 1..Len(keyed)}
             m == CHOOSE d \in ds : \A d2 \in ds : d <= d2
             IsMin(k) == k.d = m
             NotMin(k) == k.d # m
         IN SelectSeq(keyed, IsMin) \o OrderByDistance(SelectSeq(keyed, NotMin))

\* SQL leaves the order of rows of equal distance open; tie is the order the
\* executor happens to produce among them: table order or its reverse.
TieOrders == {"asc", "desc"}

Scan(table, tie) == IF tie = "asc" THEN table ELSE Reverse(table)

\* ORDER BY ... ASC LIMIT least(match_count, cap) over the rows that passed
\* the WHERE clause, dist[i] being the distance of passed[i] to the query
SelectOrdered(passed, dist, match_count, cap) ==
    LET keyed == [i \in 1..Len(passed) |-> [row |-> passed[i], d |-> dist[i]]]
        top == Take(OrderByDistance(keyed), RowLimit(match_count, cap))
    IN [i \in 1..Len(top) |-> top[i].row]

search_user_memory(q, target_user_id, memory_types, th, match_count, tie) ==
    LET Where(r) == /\ r.user_id = target_user_id
                    /\ r.memory_type \in memory_types
                    /\ MatchesThreshold(r.embedding, q, th)
        passed == SelectSeq(Scan(userMem, tie), Where)
        dist == [i \in 1..Len(passed) |-> CosineDistance(passed[i].embedding, q)]
    IN SelectOrdered(passed, dist, match_count, CapUser)

search_conversation_memory(q, target_user_id, target_conversation_id, th, match_count, tie) ==
    LET Where(r) == /\ r.user_id = target_user_id
                    /\ r.conversation_id = target_conversation_id
                    /\ MatchesThreshold(r.embedding, q, th)
        passed == SelectSeq(Scan(convMem, tie), Where)
        dist == [i \in 1..Len(passed) |-> CosineDistance(passed[i].embedding, q)]
    IN SelectOrdered(passed, dist, match_count, CapConv)

search_conversation_summaries(q, target_user_id, th, match_count, tie) ==
    LET Where(r) == /\ r.user_id = target_user_id
                    /\ MatchesThreshold(r.summary_embedding, q, th)
        passed == SelectSeq(Scan(summaries, tie), Where)
        dist == [i \in 1..Len(passed) |-> CosineDistance(passed[i].summary_embedding, q)]
    IN SelectOrdered(passed, dist, match_count, CapSummaries)

--------------------------------------------------------------------------
(* The turn pipeline of the chat backend *)

Services == {"gmail", "calendar", "docs", "notion", "github"}

\* A message is the set of vocabulary words it contains.
Messages ==
    { {"hello"},
      {"recent", "email"},          \* "show me my recent emails"
      {"calendar"},                 \* "what's on my calendar today?"
      {"email", "meeting"},         \* matches two services
      {"repositories"} }            \* "list my repositories"

\* the app selections a caller sends with a turn
AppSelections == { {}, {"gmail"}, {"gmail", "calendar"}, {"github"} }

\* the two chat endpoints of the backend (main.py)
ChatEndpoint == "/chat"

ChatOptimizedEndpoint == "/api/chat/optimized"

Endpoints == {ChatEndpoint, ChatOptimizedEndpoint}

NoReq ==
    [endpoint |-> ChatEndpoint, message |-> {}, user_id |-> None, conversation_id |-> None,
     agent_mode |-> FALSE, selected_apps |-> {}]

\* The text of a response: its parts in order, the number of characters of raw
\* exception text among them, and the service it names (or None).
Text(parts, exception_chars, names) ==
    [parts |-> parts, exception_chars |-> exception_chars, names |-> names]

NoText == Text(<<>>, 0, None)

NoResp ==
    [kind |-> "none", serviceUsed |-> None, status |-> "none", web_search |-> FALSE,
     text |-> NoText]

\* what the external collaborators of the current turn did
NoEnv ==
    [token |-> None, exception |-> 0, waited |-> 0, storeFailed |-> FALSE,
     fallbackRaised |-> FALSE]

TurnIdle ==
    /\ pc = "idle"
    /\ req = NoReq
    /\ appIntent = None
    /\ kickoffs = <<>>
    /\ resp = NoResp
    /\ recorded = FALSE
    /\ lastApp = None
    /\ turns = 0
    /\ env = NoEnv

\* each service's vocabulary
Vocabulary(s) ==
    CASE s = "gmail" -> {"email", "inbox", "unread"}
      [] s = "calendar" -> {"meeting", "schedule", "calendar"}
      [] s = "docs" -> {"documents"}
      [] s = "notion" -> {"notion"}
      [] s = "github" -> {"repositories"}

MatchedServices(message) == {s \in Services : Vocabulary(s) \cap message # {}}

\* fixed priority order over the service set
Priority == <<"gmail", "calendar", "docs", "notion", "github">>

FirstInPriority(S) ==
    Priority[CHOOSE i \in 1..Len(Priority) :
                /\ Priority[i] \in S
                /\ \A j \in 1..(i - 1) : Priority[j] \notin S]

\* detect_specific_app_intent(message, conversation_history): the service whose
\* vocabulary the message matches; of several, the app of the preceding turn,
\* else the first in priority order; None when no vocabulary matches.
detect_specific_app_intent(message, conversation_history) ==
    LET matched == MatchedServices(message)
    IN IF matched = {} THEN None
       ELSE IF conversation_history \in matched THEN conversation_history
       ELSE FirstInPriority(matched)

\* search_keywords of simple_ai_response
SearchKeywords == {"latest", "recent", "current", "today", "news", "weather", "price", "stock"}

needs_search(message) == message \cap SearchKeywords # {}

\* chat endpoint: "if request.agent_mode:" takes the CrewAI path, else
\* simple_ai_response only
chat(request) == request.agent_mode

\* chat_optimized endpoint: calls process_user_query_optimized for every
\* request; agent_mode is passed on, and process_user_query_optimized never
\* reads it
chat_optimized(request) == TRUE

\* whether the endpoint of the request hands the turn to the agent pipeline
UsesAgents(request) ==
    IF request.endpoint = ChatOptimizedEndpoint
    THEN chat_optimized(request)
    ELSE chat(request)

\* Mutant of DispatchTargets: one kickoff per service the message matches
DispatchTargetsAllMatched(message, app_intent) ==
    LET idx == {i \in 1..Len(Priority) : Priority[i] \in MatchedServices(message)}
        Nth(k) == CHOOSE i \in idx : Cardinality({j \in idx : j < i}) = k - 1
    IN [k \in 1..Cardinality(idx) |-> Priority[Nth(k)]]

\* process_user_query_optimized: one process_with_structured_output call with
\* app_type = app_intent
DispatchTargets(message, app_intent) == <<app_intent>>

\* embedding of a turn's text (Embedding Service)
EmbedText(message) == IF "email" \in message THEN E1 ELSE E2

\* the rows of one turn: the user message and the response, numbered after the
\* rows the conversation already has
TurnRows(table, request) ==
    LET n == Len(table)
        t == Cardinality({i \in 1..n : table[i].conversation_id = request.conversation_id})
    IN << ConversationMemoryRow(n + 1, request.user_id, request.conversation_id, "user",
                                t + 1, EmbedText(request.message)),
          ConversationMemoryRow(n + 2, request.user_id, request.conversation_id, "assistant",
                                t + 2, EmbedText(request.message)) >>

\* A chat endpoint receives a request.
ReceiveTurn(endpoint, message, u, c, agent_mode, selected_apps) ==
    /\ pc \in {"idle", "done"}
    /\ turns < MaxTurns
    /\ pc' = "received"
    /\ req' = [endpoint |-> endpoint, message |-> message, user_id |-> u,
               conversation_id |-> c, agent_mode |-> agent_mode,
               selected_apps |-> selected_apps]
    /\ appIntent' = None
    /\ kickoffs' = <<>>
    /\ resp' = NoResp
    /\ recorded' = FALSE
    /\ lastApp' = resp.serviceUsed
    /\ turns' = turns + 1
    /\ env' = NoEnv
    /\ UNCHANGED storeVars
    /\ UNCHANGED sideVars

\* Agent OFF: assistant_content = await simple_ai_response(message_text, user_id)
SimpleChat ==
    /\ pc = "received"
    /\ ~UsesAgents(req)
    /\ resp' = [kind |-> "simple", serviceUsed |-> None, status |-> "success",
                web_search |-> needs_search(req.message),
                text |-> Text(<<"completion">>, 0, None)]
    /\ pc' = "persist"
    /\ UNCHANGED <<req, appIntent, kickoffs, recorded, lastApp, turns, env>>
    /\ UNCHANGED storeVars
    /\ UNCHANGED sideVars

\* Agent OFF: the endpoint persists the turn of a conversation.
PersistSimpleTurn ==
    /\ pc = "persist"
    /\ IF req.conversation_id # None
       THEN /\ convMem' = convMem \o TurnRows(convMem, req)
            /\ recorded' = TRUE
       ELSE UNCHANGED <<convMem, recorded>>
    /\ pc' = "done"
    /\ UNCHANGED <<userMem, summaries, hist, lastOp, call>>
    /\ UNCHANGED <<req, appIntent, kickoffs, resp, lastApp, turns, env>>
    /\ UNCHANGED sideVars

\* Mutant of DetectIntent: the conversation history is not passed on
DetectIntentNoHistory(raises) ==
    /\ pc = "received"
    /\ UsesAgents(req)
    /\ IF raises
       THEN /\ pc' = "fallback"
            /\ UNCHANGED appIntent
       ELSE /\ pc' = "routed"
            /\ appIntent' = detect_specific_app_intent(req.message, None)
    /\ UNCHANGED <<req, kickoffs, resp, recorded, lastApp, turns, env>>
    /\ UNCHANGED storeVars
    /\ UNCHANGED sideVars

\* Agent pipeline, process_user_query_optimized:
\*   app_intent = detect_specific_app_intent(message, conversation_history)
\* An exception here is caught by the function's outer except.
DetectIntent(raises) ==
    /\ pc = "received"
    /\ UsesAgents(req)
    /\ IF raises
       THEN /\ pc' = "fallback"
            /\ UNCHANGED appIntent
       ELSE /\ pc' = "routed"
            /\ appIntent' = detect_specific_app_intent(req.message, lastApp)
    /\ UNCHANGED <<req, kickoffs, resp, recorded, lastApp, turns, env>>
    /\ UNCHANGED storeVars
    /\ UNCHANGED sideVars

\* process_with_structured_output / process_general_conversation:
\*   if conversation_id: context_dict = await memory_manager.get_comprehensive_context(...)
\* In both functions a failure of the memory store ends in
\* fallback_simple_response: through the outer except of
\* process_user_query_optimized (the call is outside the try of
\* process_with_structured_output), or through the except of
\* process_general_conversation.
GetContext(raises) ==
    /\ pc = "routed"
    /\ IF req.conversation_id # None /\ raises
       THEN /\ pc' = "fallback"
            /\ env' = [env EXCEPT !.storeFailed = TRUE]
       ELSE /\ pc' = "context"
            /\ UNCHANGED env
    /\ UNCHANGED <<req, appIntent, kickoffs, resp, recorded, lastApp, turns>>
    /\ UNCHANGED storeVars
    /\ UNCHANGED sideVars

\* agent.kickoff(contextual_message, response_format=...): the service agent of
\* app_intent, or the writer agent when no app was detected.  connected is
\* whether the user has a valid token for the service: nothing looks it up
\* before the kickoff, the agent's tool does (get_gmail_access_token in _run).
Kickoff(connected) ==
    /\ pc = "context"
    /\ kickoffs' = kickoffs \o (IF appIntent # None
                                THEN DispatchTargets(req.message, appIntent)
                                ELSE <<"writer">>)
    /\ env' = [env EXCEPT !.token = IF appIntent = None THEN None
                                     ELSE IF connected THEN "valid" ELSE "NotConnected"]
    /\ pc' = "tool"
    /\ UNCHANGED <<req, appIntent, resp, recorded, lastApp, turns>>
    /\ UNCHANGED storeVars
    /\ UNCHANGED sideVars

\* agent.kickoff is a blocking call without a timeout: time passes while the
\* turn waits for it.
ToolWait ==
    /\ pc = "tool"
    /\ env.waited < MaxWait
    /\ env' = [env EXCEPT !.waited = @ + 1]
    /\ UNCHANGED <<pc, req, appIntent, kickoffs, resp, recorded, lastApp, turns>>
    /\ UNCHANGED storeVars
    /\ UNCHANGED sideVars

\* the kickoff returns a result, returns the tool's "not connected" message, or
\* raises
KickoffOutcomes == {"success", "not_connected", "exception"}

\* lengths of the texts str(e) of the exceptions raised
ExceptionTexts == {40, ErrorTextLimit + 50}

\* error_message = f"Agent execution failed: {str(e)[:100]}"
ErrorMessage(e) ==
    Text(<<"Agent execution failed: ", "str(e)[:100]">>, Min(e, ErrorTextLimit), None)

\* number of characters of an error message
ErrorMessageChars(m) == ErrorPrefixChars + m.exception_chars

\* format_structured_response_for_conversation, status ERROR:
\*   response.response.error_message + " " + response.response.solution
FormatError(m) ==
    Text(m.parts \o <<" ", "Check connection and try again">>, m.exception_chars, None)

ToolReturn(outcome, e) ==
    /\ pc = "tool"
    /\ outcome = "not_connected" <=> (env.token = "NotConnected" /\ outcome # "exception")
    /\ env' = [env EXCEPT !.exception = IF outcome = "exception" THEN e ELSE 0]
    /\ IF appIntent # None
       THEN \* process_with_structured_output
            IF outcome = "exception"
            THEN \* except Exception as e: ErrorResponse(error_message=...); the
                 \* model's max_length=100 rejects a longer message, and that
                 \* error leaves through the caller's except
                 IF ErrorMessageChars(ErrorMessage(e)) > ErrorMessageMaxLength
                 THEN /\ pc' = "fallback"
                      /\ UNCHANGED resp
                 ELSE /\ resp' = [kind |-> "agent_error", serviceUsed |-> appIntent,
                                  status |-> "error", web_search |-> FALSE,
                                  text |-> FormatError(ErrorMessage(e))]
                      /\ pc' = "store"
            ELSE IF outcome = "not_connected"
            THEN \* the tool returned {"status": "error", "message": "Gmail not
                 \* connected. Connect in Settings > Integrations."} to the agent
                 /\ resp' = [kind |-> "structured", serviceUsed |-> appIntent,
                             status |-> "error", web_search |-> FALSE,
                             text |-> Text(<<"not connected. Connect in Settings > Integrations.">>,
                                           0, appIntent)]
                 /\ pc' = "store"
            ELSE /\ resp' = [kind |-> "structured", serviceUsed |-> appIntent,
                             status |-> "success", web_search |-> FALSE,
                             text |-> Text(<<"answer", "next_steps">>, 0, None)]
                 /\ pc' = "store"
       ELSE \* process_general_conversation: result.pydantic.answer, or its except
            IF outcome = "success"
            THEN /\ resp' = [kind |-> "general", serviceUsed |-> None,
                             status |-> "success", web_search |-> FALSE,
                             text |-> Text(<<"answer">>, 0, None)]
                 /\ pc' = "store"
            ELSE /\ pc' = "fallback"
                 /\ UNCHANGED resp
    /\ UNCHANGED <<req, appIntent, kickoffs, recorded, lastApp, turns>>
    /\ UNCHANGED storeVars
    /\ UNCHANGED sideVars

\* if conversation_id: await memory_manager.store_conversation_turn(...)
\* A failure is caught by the enclosing except and ends in the fallback.
StoreTurn(raises) ==
    /\ pc = "store"
    /\ IF req.conversation_id = None
       THEN /\ pc' = "done"
            /\ UNCHANGED <<convMem, recorded, resp, env>>
       ELSE IF raises
       THEN /\ pc' = "fallback"
            /\ resp' = NoResp
            /\ env' = [env EXCEPT !.storeFailed = TRUE]
            /\ UNCHANGED <<convMem, recorded>>
       ELSE /\ convMem' = convMem \o TurnRows(convMem, req)
            /\ recorded' = TRUE
            /\ pc' = "done"
            /\ UNCHANGED <<resp, env>>
    /\ UNCHANGED <<userMem, summaries, hist, lastOp, call>>
    /\ UNCHANGED <<req, appIntent, kickoffs, lastApp, turns>>
    /\ UNCHANGED sideVars

\* Mutant of Fallback: the failure is answered with the apology alone
FallbackApologyOnly(raises) ==
    /\ pc = "fallback"
    /\ resp' = [kind |-> "apology", serviceUsed |-> None, status |-> "error",
                web_search |-> FALSE,
                text |-> Text(<<"I apologize, but I encountered an error. Please try again.">>,
                              0, None)]
    /\ pc' = "done"
    /\ env' = [env EXCEPT !.fallbackRaised = raises]
    /\ UNCHANGED <<req, appIntent, kickoffs, recorded, lastApp, turns>>
    /\ UNCHANGED storeVars
    /\ UNCHANGED sideVars

\* except Exception: return await fallback_simple_response(message); when that
\* raises too, the endpoint's except returns "I apologize, but I encountered an
\* error. Please try again."
Fallback(raises) ==
    /\ pc = "fallback"
    /\ resp' = [kind |-> IF raises THEN "apology" ELSE "fallback",
                serviceUsed |-> None,
                status |-> IF raises THEN "error" ELSE "degraded",
                web_search |-> FALSE,
                text |-> IF raises
                         THEN Text(<<"I apologize, but I encountered an error. Please try again.">>,
                                   0, None)
                         ELSE Text(<<"fallback completion">>, 0, None)]
    /\ pc' = "done"
    /\ env' = [env EXCEPT !.fallbackRaised = raises]
    /\ UNCHANGED <<req, appIntent, kickoffs, recorded, lastApp, turns>>
    /\ UNCHANGED storeVars
    /\ UNCHANGED sideVars

--------------------------------------------------------------------------
(* Store operations.  caller is the user on whose behalf the operation runs. *)

NoOp ==
    [op |-> "none", caller |-> None, table |-> None, q |-> None, th |-> 0,
     match_count |-> 0, cap |-> 0, status |-> "ok", result |-> <<>>, modified |-> {}]

SearchOp(name, table, caller, q, th, match_count, cap, rows) ==
    \* PostgreSQL rejects a negative LIMIT ("LIMIT must not be negative")
    [op |-> name, caller |-> caller, table |-> table, q |-> q, th |-> th,
     match_count |-> match_count, cap |-> cap,
     status |-> IF RowLimit(match_count, cap) < 0 THEN "error" ELSE "ok",
     result |-> IF RowLimit(match_count, cap) < 0 THEN <<>> ELSE rows,
     modified |-> {}]

\* Row policies "Users can manage own ..." FOR ALL USING (true): the rows of a
\* table that an operation of user caller may see and change.
PolicyUsing(caller, row) == TRUE

\* INSERT INTO user_memory_vectors: id, access_count take their defaults
CreateUserMemory(item) ==
    /\ Len(userMem) < MaxUserMem
    /\ LET id == Len(userMem) + 1
       IN /\ userMem' = Append(userMem, UserMemoryRow(id, item[1], item[2], item[3], 0, item[4]))
          /\ hist' = Append(hist, [importance |-> item[3], access_count |-> 0, calls |-> 0])
          /\ lastOp' = [NoOp EXCEPT !.op = "insert_user_memory", !.caller = item[1],
                                    !.table = "user_memory_vectors"]
    /\ UNCHANGED <<convMem, summaries, call>>
    /\ UNCHANGED turnVars
    /\ UNCHANGED sideVars

\* Mutant of AccessedRow: the access is counted but the importance is not nudged
AccessedRowNoNudge(r) ==
    [r EXCEPT !.access_count = r.access_count + 1]

\* Mutant of AccessedRow: importance_score + 0.1 without LEAST
AccessedRowNoCap(r) ==
    [r EXCEPT !.access_count = r.access_count + 1,
              !.importance_score = Float8Add(r.importance_score, ImportanceStep)]

\* Mutant of AccessedRow: access_count = 1 instead of access_count + 1
AccessedRowResetCount(r) ==
    [r EXCEPT !.access_count = 1,
              !.importance_score =
                  Float8Least(ImportanceOne, Float8Add(r.importance_score, ImportanceStep))]

\* SET access_count = access_count + 1, importance_score = LEAST(1.0, importance_score + 0.1)
AccessedRow(r) ==
    [r EXCEPT !.access_count = r.access_count + 1,
              !.importance_score =
                  Float8Least(ImportanceOne, Float8Add(r.importance_score, ImportanceStep))]

RECURSIVE TotalCalls(_)
\* number of update_memory_access calls made so far on existing rows
TotalCalls(h) == IF h = <<>> THEN 0 ELSE Head(h).calls + TotalCalls(Tail(h))

\* update_memory_access(memory_id): UPDATE ... WHERE id = memory_id
update_memory_access(caller, memory_id) ==
    /\ memory_id \in 1..Len(userMem) => TotalCalls(hist) < MaxAccess
    /\ LET hit == {i \in 1..Len(userMem) :
                      i = memory_id /\ PolicyUsing(caller, userMem[i])}
       IN /\ userMem' = [i \in 1..Len(userMem) |->
                            IF i \in hit THEN AccessedRow(userMem[i]) ELSE userMem[i]]
          /\ hist' = [i \in 1..Len(hist) |->
                            IF i \in hit THEN [hist[i] EXCEPT !.calls = @ + 1] ELSE hist[i]]
          /\ lastOp' = [NoOp EXCEPT !.op = "update_memory_access", !.caller = caller,
                                    !.table = "user_memory_vectors", !.modified = hit]
    /\ UNCHANGED <<convMem, summaries, call>>
    /\ UNCHANGED turnVars
    /\ UNCHANGED sideVars

SearchUserMemory(q, u, memory_types, th, match_count, tie) ==
    /\ lastOp' = SearchOp("search_user_memory", "user_memory_vectors", u, q, th,
                          match_count, CapUser,
                          search_user_memory(q, u, memory_types, th, match_count, tie))
    /\ UNCHANGED <<userMem, convMem, summaries, hist, call>>
    /\ UNCHANGED turnVars
    /\ UNCHANGED sideVars

SearchConversationMemory(q, u, c, th, match_count, tie) ==
    /\ lastOp' = SearchOp("search_conversation_memory", "conversation_memory_vectors", u, q,
                          th, match_count, CapConv,
                          search_conversation_memory(q, u, c, th, match_count, tie))
    /\ UNCHANGED <<userMem, convMem, summaries, hist, call>>
    /\ UNCHANGED turnVars
    /\ UNCHANGED sideVars

SearchConversationSummaries(q, u, th, match_count, tie) ==
    /\ lastOp' = SearchOp("search_conversation_summaries", "conversation_summaries", u, q,
                          th, match_count, CapSummaries,
                          search_conversation_summaries(q, u, th, match_count, tie))
    /\ UNCHANGED <<userMem, convMem, summaries, hist, call>>
    /\ UNCHANGED turnVars
    /\ UNCHANGED sideVars

--------------------------------------------------------------------------
(* The contextual message of a turn.  A text is a sequence of segments, each *)
(* a run of characters that came from one memory tier.                      *)

Segment(tier, chars) == [tier |-> tier, chars |-> chars]

RECURSIVE Chars(_)
\* length of a text
Chars(segs) == IF segs = <<>> THEN 0 ELSE Head(segs).chars + Chars(Tail(segs))

\* memory_manager.get_comprehensive_context(...)['context_summary']: the
\* contributions of the three tiers in precedence order, in-conversation
\* memory first, then user memory, then summaries of other conversations
get_comprehensive_context(tiers) ==
    LET NonEmpty(g) == g.chars > 0
    IN SelectSeq(<<Segment(1, tiers[1]), Segment(2, tiers[2]), Segment(3, tiers[3])>>,
                 NonEmpty)

RECURSIVE Slice(_, _)
\* text[:n]
Slice(segs, n) ==
    IF segs = <<>> \/ n <= 0 THEN <<>>
    ELSE IF Head(segs).chars <= n
         THEN <<Head(segs)>> \o Slice(Tail(segs), n - Head(segs).chars)
         ELSE <<Segment(Head(segs).tier, n)>>

\* Mutant of MemoryContextSlice: memory_context[-200:], the end of the text kept
MemoryContextSliceTail(memory_context) ==
    Reverse(Slice(Reverse(memory_context), ContextLimit))

\* memory_context[:200]
MemoryContextSlice(memory_context) == Slice(memory_context, ContextLimit)

NoCtx == [tiers |-> <<0, 0, 0>>, conversation |-> FALSE, out |-> <<>>, built |-> FALSE]

\* process_with_structured_output:
\*   if conversation_id: memory_context = context_dict.get('context_summary', '')
\*   if memory_context: contextual_message += f"\n\nContext: {memory_context[:200]}"
\* ctx.out is the memory context that enters the contextual message.
BuildContextualMessage ==
    /\ ~ctx.built
    /\ LET memory_context == IF ctx.conversation
                             THEN get_comprehensive_context(ctx.tiers)
                             ELSE <<>>
       IN ctx' = [ctx EXCEPT !.out = MemoryContextSlice(memory_context), !.built = TRUE]
    /\ UNCHANGED <<storeVars, turnVars, workers, client, proxy>>
    /\ UNCHANGED <<chatCtx, pageVars>>

--------------------------------------------------------------------------
(* Concurrent writers of the memory store: the Turn Recorder              *)
(* (store_conversation_turn) and the summarization pass.  Each reads the  *)
(* table and then writes; turns are independent units of work, so two     *)
(* writers may interleave between the read and the write.                 *)

Workers == {"w1", "w2"}

IdleWorker == [pc |-> "idle", user_id |-> None, conversation_id |-> None, seen |-> 0]

NoWorkers == [w \in Workers |-> IdleWorker]

\* rows of a table that belong to a conversation
RowsOf(table, c) == {i \in 1..Len(table) : table[i].conversation_id = c}

Busy(kind) == Cardinality({w \in Workers : workers[w].pc = kind})

\* the recorder reads how many rows the conversation has
BeginRecord(w, u, c) ==
    /\ workers[w].pc = "idle"
    /\ (Len(convMem) \div 2) + Busy("record") < MaxRecorded
    /\ workers' = [workers EXCEPT ![w] = [pc |-> "record", user_id |-> u,
                                          conversation_id |-> c,
                                          seen |-> Cardinality(RowsOf(convMem, c))]]
    /\ UNCHANGED <<storeVars, turnVars, ctx, client, proxy>>
    /\ UNCHANGED <<chatCtx, pageVars>>

\* INSERT INTO conversation_memory_vectors: the user message and the response,
\* numbered after the rows read; the table has no constraint on turn_number
FinishRecord(w) ==
    /\ workers[w].pc = "record"
    /\ LET k == workers[w]
           n == Len(convMem)
       IN convMem' = convMem \o
              << ConversationMemoryRow(n + 1, k.user_id, k.conversation_id, "user",
                                       k.seen + 1, E1),
                 ConversationMemoryRow(n + 2, k.user_id, k.conversation_id, "assistant",
                                       k.seen + 2, E1) >>
    /\ workers' = [workers EXCEPT ![w] = IdleWorker]
    /\ lastOp' = [NoOp EXCEPT !.op = "insert_conversation_memory", !.caller = workers[w].user_id,
                              !.table = "conversation_memory_vectors"]
    /\ UNCHANGED <<userMem, summaries, hist, call>>
    /\ UNCHANGED <<turnVars, ctx, client, proxy>>
    /\ UNCHANGED <<chatCtx, pageVars>>

\* the summarization pass reads whether the conversation has a summary of the
\* user: seen is its row, or 0
BeginSummarize(w, u, c) ==
    /\ workers[w].pc = "idle"
    /\ LET own == {i \in RowsOf(summaries, c) : summaries[i].user_id = u}
       IN workers' = [workers EXCEPT ![w] =
              [pc |-> "summarize", user_id |-> u, conversation_id |-> c,
               seen |-> IF own = {} THEN 0 ELSE CHOOSE i \in own : TRUE]]
    /\ UNCHANGED <<storeVars, turnVars, ctx, client, proxy>>
    /\ UNCHANGED <<chatCtx, pageVars>>

\* Mutant of UniqueViolation: the column declared without UNIQUE
UniqueViolationNever(table, c) == FALSE

\* conversation_id TEXT NOT NULL UNIQUE: an INSERT of a conversation id the
\* table already holds is rejected
UniqueViolation(table, c) == RowsOf(table, c) # {}

\* created on the first pass (INSERT), updated thereafter (UPDATE of the row read)
FinishSummarize(w) ==
    /\ workers[w].pc = "summarize"
    /\ LET k == workers[w]
           count == Cardinality(RowsOf(convMem, k.conversation_id))
       IN IF k.seen = 0
          THEN IF UniqueViolation(summaries, k.conversation_id)
               THEN /\ UNCHANGED summaries
                    /\ lastOp' = [NoOp EXCEPT !.op = "insert_summary", !.caller = k.user_id,
                                              !.table = "conversation_summaries",
                                              !.status = "error"]
               ELSE /\ summaries' = Append(summaries,
                          ConversationSummaryRow(Len(summaries) + 1, k.user_id,
                                                 k.conversation_id, count, E1))
                    /\ lastOp' = [NoOp EXCEPT !.op = "insert_summary", !.caller = k.user_id,
                                              !.table = "conversation_summaries"]
          ELSE /\ summaries' = [summaries EXCEPT ![k.seen].message_count = count]
               /\ lastOp' = [NoOp EXCEPT !.op = "update_summary", !.caller = k.user_id,
                                         !.table = "conversation_summaries",
                                         !.modified = {k.seen}]
    /\ workers' = [workers EXCEPT ![w] = IdleWorker]
    /\ UNCHANGED <<userMem, convMem, hist, call>>
    /\ UNCHANGED <<turnVars, ctx, client, proxy>>
    /\ UNCHANGED <<chatCtx, pageVars>>

--------------------------------------------------------------------------
(* The Chat component (src/components/chat.tsx) and the /api/chat route    *)
(* (src/app/api/chat/route.ts) between it and the backend.                 *)

\* the apps of the selection dropdown
Apps == {"Gmail", "Calendar", "Docs", "Notion", "GitHub"}

\* A JSON value as far as the route inspects it: its kind and its size
\* (characters of a string, items of an array).
JsonUndefined == [kind |-> "undefined", n |-> 0]

JsonString(n) == [kind |-> "string", n |-> n]

JsonArray(n) == [kind |-> "array", n |-> n]

\* JavaScript's !v
Falsy(v) == v.kind = "undefined" \/ (v.kind = "string" /\ v.n = 0)

\* Array.isArray(v)
IsArray(v) == v.kind = "array"

\* A request body: the keys it has and their values.  A key that is absent
\* reads as undefined, and JSON.stringify leaves out undefined values.
Body(fields, message, messages, conversation_id, user_id, agent_mode, selected_apps, use_gmail_agent) ==
    [fields |-> fields, message |-> message, messages |-> messages,
     conversation_id |-> conversation_id, user_id |-> user_id, agent_mode |-> agent_mode,
     selected_apps |-> selected_apps, use_gmail_agent |-> use_gmail_agent]

NoBody == Body({}, <<>>, JsonUndefined, None, None, FALSE, <<>>, FALSE)

\* text typed into the input box, as characters
Inputs == { <<>>, <<" ", " ">>, <<"h", "i">>, <<" ", "e", "m", "a", "i", "l", "s">> }

RECURSIVE TrimStart(_)
TrimStart(t) == IF t # <<>> /\ Head(t) = " " THEN TrimStart(Tail(t)) ELSE t

\* input.trim()
Trim(t) == Reverse(TrimStart(Reverse(TrimStart(t))))

\* selectedApps.includes(app)
Includes(apps, app) == \E i \in 1..Len(apps) : apps[i] = app

NoClient ==
    [agentMode |-> FALSE, selectedApps |-> <<>>, showAppDropdown |-> FALSE,
     isLoading |-> FALSE, userId |-> None, currentConversationId |-> None,
     shown |-> "none"]

\* ids given to the conversations created from the chat page, in order
NewIds == <<"c3", "c4">>

AllConversations == Conversations \cup {NewIds[i] : i \in 1..Len(NewIds)}

\* A message of currentMessages (DBMessage): the conversation it belongs to, its
\* role and what its content is.
Message(conversation_id, role, content) ==
    [conversation_id |-> conversation_id, role |-> role, content |-> content]

\* supabase.from('messages').select('*').eq('conversation_id', c): the rows of
\* the messages table; a conversation created from the page has none
DbMessages(c) ==
    IF c \in Conversations THEN <<Message(c, "user", "stored")>> ELSE <<>>

NoLoads == [c \in AllConversations |-> 0]

\* ChatProvider state: useState([]) etc.; loads counts the selects of the
\* messages table in flight per conversation, creating the inserts in flight,
\* appended what the submission in progress (or the last one) has appended
NoChat ==
    [conversations |-> <<>>, currentMessages |-> <<>>, isLoadingMessages |-> FALSE,
     loads |-> NoLoads, creating |-> 0, created |-> 0, appended |-> <<>>]

RECURSIVE Sum(_, _)
Sum(f, S) == IF S = {} THEN 0 ELSE LET x == CHOOSE y \in S : TRUE IN f[x] + Sum(f, S \ {x})

InFlight == Sum(chatCtx.loads, AllConversations)

\* const addOptimisticMessage: setCurrentMessages(prev => [...prev, message])
addOptimisticMessage(prev, message) == Append(prev, message)

NoProxy ==
    [request |-> NoBody, origin |-> None, authorization |-> FALSE, stage |-> "idle",
     status |-> 0, forwarded |-> NoBody]

\* const toggleAgentMode: the selection is reset when the mode is switched on
toggleAgentMode ==
    /\ ~client.isLoading      \* disabled={isLoading}
    /\ client' = [client EXCEPT !.agentMode = ~client.agentMode,
                                !.selectedApps = IF ~client.agentMode THEN <<>> ELSE @]
    /\ UNCHANGED <<storeVars, turnVars, ctx, workers, proxy>>
    /\ UNCHANGED <<chatCtx, pageVars>>

\* const handleAppSelect
handleAppSelect(app) ==
    /\ client.agentMode /\ client.showAppDropdown   \* {agentMode && (<DropdownMenu ...
    /\ Len(client.selectedApps) < MaxSelected \/ Includes(client.selectedApps, app)
    /\ client' = [client EXCEPT !.selectedApps =
                     IF Includes(@, app)
                     THEN LET Other(a) == a # app IN SelectSeq(@, Other)
                     ELSE Append(@, app)]
    /\ UNCHANGED <<storeVars, turnVars, ctx, workers, proxy>>
    /\ UNCHANGED <<chatCtx, pageVars>>

\* onOpenChange={setShowAppDropdown} of the dropdown, shown in agent mode only
setShowAppDropdown(open) ==
    /\ client.agentMode
    /\ ~client.isLoading \/ ~open     \* the trigger is disabled while loading
    /\ client.showAppDropdown # open
    /\ client' = [client EXCEPT !.showAppDropdown = open]
    /\ UNCHANGED <<storeVars, turnVars, ctx, workers, proxy>>
    /\ UNCHANGED <<chatCtx, pageVars>>

\* const confirmApps
confirmApps ==
    /\ client.agentMode /\ client.showAppDropdown
    /\ client' = [client EXCEPT !.showAppDropdown = FALSE]
    /\ UNCHANGED <<storeVars, turnVars, ctx, workers, proxy>>
    /\ UNCHANGED <<chatCtx, pageVars>>

\* const cancelApps
cancelApps ==
    /\ client.agentMode /\ client.showAppDropdown
    /\ client' = [client EXCEPT !.selectedApps = <<>>, !.showAppDropdown = FALSE]
    /\ UNCHANGED <<storeVars, turnVars, ctx, workers, proxy>>
    /\ UNCHANGED <<chatCtx, pageVars>>

\* the requestBody of handleSubmit
requestBody(input) ==
    Body({"message", "conversation_id", "agent_mode", "selected_apps", "use_gmail_agent"},
         Trim(input), JsonUndefined, client.currentConversationId, None,
         client.agentMode, client.selectedApps,
         client.agentMode /\ Includes(client.selectedApps, "Gmail"))

\* const handleSubmit: fetch("/api/chat", {method: "POST", headers: {...,
\* "Authorization": `Bearer ${userId}`}, body: JSON.stringify(requestBody)})
handleSubmit(input) ==
    /\ ~(Trim(input) = <<>> \/ client.isLoading \/ client.currentConversationId = None)
    /\ proxy.stage \in {"idle", "answered"}
    /\ Len(chatCtx.currentMessages) + 2 <= MaxMessages
    /\ client' = [client EXCEPT !.isLoading = TRUE, !.shown = "none"]
    /\ chatCtx' = [chatCtx EXCEPT
                   !.currentMessages =
                       addOptimisticMessage(@, Message(client.currentConversationId,
                                                       "user", "input")),
                   !.appended = <<"input">>]
    /\ proxy' = [request |-> requestBody(input), origin |-> "Chat", authorization |-> TRUE,
                 stage |-> "posted", status |-> 0, forwarded |-> NoBody]
    /\ UNCHANGED <<storeVars, turnVars, ctx, workers, pageVars>>

\* bodies other callers of the route post: a messages array, with the flags
ApiBodies ==
    { Body({"messages", "conversation_id", "user_id", "agent_mode", "selected_apps",
            "use_gmail_agent"},
           <<>>, JsonArray(n), "c1", "u1", am, apps, am /\ Includes(apps, "Gmail")) :
        n \in {0, 1}, am \in BOOLEAN, apps \in {<<>>, <<"Gmail">>} }
    \cup { Body({"messages"}, <<>>, JsonString(2), None, None, FALSE, <<>>, FALSE) }

\* a caller other than the Chat component posts to /api/chat
ApiPost(body, authorization) ==
    /\ proxy.stage \in {"idle", "answered"}
    /\ ~client.isLoading
    /\ proxy' = [request |-> body, origin |-> "api", authorization |-> authorization,
                 stage |-> "posted", status |-> 0, forwarded |-> NoBody]
    /\ UNCHANGED <<storeVars, turnVars, ctx, workers, client>>
    /\ UNCHANGED <<chatCtx, pageVars>>

\* the body the route sends to PYTHON_BACKEND_URL + '/chat':
\*   JSON.stringify({ messages, conversation_id, user_id })
ForwardedBody(b) ==
    Body({"messages"} \cup (b.fields \cap {"conversation_id", "user_id"}),
         <<>>, b.messages, b.conversation_id, b.user_id, FALSE, <<>>, FALSE)

\* Mutant of HandleResponse: the catch block logs the error and shows nothing
HandleResponseSilentCatch(conversation_id, ok) ==
    IF ok
    THEN [chatCtx EXCEPT
            !.currentMessages =
                addOptimisticMessage(@, Message(conversation_id, "assistant", "response")),
            !.appended = Append(@, "response")]
    ELSE chatCtx

\* handleSubmit after the fetch: the assistant message with data.response, or in
\* the catch block the error message; conversation_id is the one captured when
\* the submission started
HandleResponse(conversation_id, ok) ==
    [chatCtx EXCEPT
       !.currentMessages =
           addOptimisticMessage(@, Message(conversation_id, "assistant",
                                           IF ok THEN "response" ELSE "apology")),
       !.appended = Append(@, IF ok THEN "response" ELSE "apology")]

\* export async function POST(request): backendStatus is the status of the
\* backend's response
POST(backendStatus) ==
    /\ proxy.stage = "posted"
    /\ LET b == proxy.request
           messages == IF "messages" \in b.fields THEN b.messages ELSE JsonUndefined
       IN IF Falsy(messages) \/ ~IsArray(messages)
          THEN proxy' = [proxy EXCEPT !.stage = "answered", !.status = 400]
          ELSE IF ~proxy.authorization
          THEN proxy' = [proxy EXCEPT !.stage = "answered", !.status = 401]
          ELSE proxy' = [proxy EXCEPT !.stage = "answered", !.status = backendStatus,
                                      !.forwarded = ForwardedBody(b)]
    /\ client' = IF proxy.origin = "Chat"
                 THEN \* if (!response.ok) throw ...; catch: the error message
                      [client EXCEPT !.isLoading = FALSE,
                                     !.shown = IF proxy'.status = 200 THEN "assistant"
                                               ELSE "error"]
                 ELSE client
    /\ chatCtx' = IF proxy.origin = "Chat"
               THEN HandleResponse(proxy.request.conversation_id, proxy'.status = 200)
               ELSE chatCtx
    /\ UNCHANGED <<storeVars, turnVars, ctx, workers, pageVars>>

\* const selectConversation; the effect on [currentConversationId, userId]
\* selects the conversation once more when the id has changed
selectConversation(conversationId) ==
    /\ client.userId # None
    /\ LET n == IF conversationId # client.currentConversationId THEN 2 ELSE 1
       IN /\ InFlight + n <= MaxLoads
          /\ chatCtx' = [chatCtx EXCEPT !.isLoadingMessages = TRUE,
                                  !.loads[conversationId] = @ + n]
    /\ client' = [client EXCEPT !.currentConversationId = conversationId]
    /\ UNCHANGED <<storeVars, turnVars, ctx, workers, proxy, pageVars>>

\* const reloadCurrentConversation
reloadCurrentConversation ==
    /\ client.userId # None
    /\ client.currentConversationId # None
    /\ InFlight < MaxLoads
    /\ chatCtx' = [chatCtx EXCEPT !.isLoadingMessages = TRUE,
                            !.loads[client.currentConversationId] = @ + 1]
    /\ UNCHANGED <<storeVars, turnVars, ctx, workers, client, proxy, pageVars>>

\* the select of the messages table started by selectConversation or
\* reloadCurrentConversation answers: setCurrentMessages(data || []) unless it
\* failed, and setIsLoadingMessages(false) in either case
MessagesReply(conversationId, failed) ==
    /\ chatCtx.loads[conversationId] > 0
    /\ chatCtx' = [chatCtx EXCEPT !.loads[conversationId] = @ - 1,
                            !.isLoadingMessages = FALSE,
                            !.currentMessages =
                                IF failed THEN @ ELSE DbMessages(conversationId)]
    /\ UNCHANGED <<storeVars, turnVars, ctx, workers, client, proxy, pageVars>>

\* const createNewConversation, up to the await of the insert
createNewConversation ==
    /\ client.userId # None
    /\ chatCtx.created + chatCtx.creating < MaxCreated
    /\ chatCtx' = [chatCtx EXCEPT !.creating = @ + 1]
    /\ UNCHANGED <<storeVars, turnVars, ctx, workers, client, proxy, pageVars>>

\* the insert answers: the new conversation becomes the current one with no
\* messages, and the effect on currentConversationId selects it
ConversationCreated(failed) ==
    /\ chatCtx.creating > 0
    /\ IF failed
       THEN /\ chatCtx' = [chatCtx EXCEPT !.creating = @ - 1]
            /\ UNCHANGED client
       ELSE LET id == NewIds[chatCtx.created + 1]
            IN /\ chatCtx' = [chatCtx EXCEPT !.creating = @ - 1,
                                       !.created = @ + 1,
                                       !.conversations = <<id>> \o @,
                                       !.currentMessages = <<>>,
                                       !.isLoadingMessages = TRUE,
                                       !.loads[id] = @ + 1]
               /\ client' = [client EXCEPT !.currentConversationId = id]
    /\ UNCHANGED <<storeVars, turnVars, ctx, workers, proxy, pageVars>>

--------------------------------------------------------------------------
(* The conversation messages route                                         *)
(* (src/app/api/conversations/[conversationId]/messages/route.ts).          *)

\* a request header: absent (headers.get returns null), or its value as a
\* sequence of parts
NoHeader == [present |-> FALSE, value |-> <<>>]

Header(value) == [present |-> TRUE, value |-> value]

RECURSIVE Replace(_, _)
\* value.replace(part, ''): the first occurrence removed
Replace(value, part) ==
    IF value = <<>> THEN <<>>
    ELSE IF Head(value) = part THEN Tail(value)
    ELSE <<Head(value)>> \o Replace(Tail(value), part)

\* const userId = authorization.replace('Bearer ', '')
BearerUserId(authorization) ==
    LET id == Replace(authorization.value, "Bearer ")
    IN IF id = <<>> THEN "" ELSE Head(id)

\* the conversation ids requested: those of the table and one it never holds
RequestedIds == Conversations \cup {"c9"}

\* Mutant of OwnsConversation: the lookup without .eq('user_id', userId)
OwnsConversationAnyUser(owners, conversationId, userId) ==
    conversationId \in Conversations /\ owners[conversationId] # None

\* supabase.from('conversations').select('id').eq('id', conversationId)
\*   .eq('user_id', userId).single() finds a row
OwnsConversation(owners, conversationId, userId) ==
    conversationId \in Conversations /\ owners[conversationId] = userId

\* owners is the conversations table: the user_id of each conversation, None
\* for a conversation that does not exist
NoApi ==
    [stage |-> "idle", owners |-> [c \in Conversations |-> None],
     authorization |-> NoHeader, conversationId |-> None, status |-> 0,
     messages |-> <<>>]

\* a caller requests GET /api/conversations/{conversationId}/messages
GetMessages(authorization, conversationId) ==
    /\ api.stage \in {"idle", "answered"}
    /\ api' = [api EXCEPT !.stage = "requested", !.authorization = authorization,
                          !.conversationId = conversationId, !.status = 0,
                          !.messages = <<>>]
    /\ UNCHANGED <<storeVars, turnVars, ctx, workers, client, proxy, chatCtx>>
    /\ UNCHANGED <<dialog, oauth, auth>>

\* export async function GET(request, { params }): convError and error are the
\* errors of the two queries
MessagesGET(convError, error) ==
    /\ api.stage = "requested"
    /\ LET authorization == api.authorization
           userId == BearerUserId(authorization)
           conversation == OwnsConversation(api.owners, api.conversationId, userId)
       IN IF ~authorization.present \/ authorization.value = <<>>
          THEN api' = [api EXCEPT !.stage = "answered", !.status = 401]
          ELSE IF convError \/ ~conversation
          THEN api' = [api EXCEPT !.stage = "answered", !.status = 404]
          ELSE IF error
          THEN api' = [api EXCEPT !.stage = "answered", !.status = 500]
          ELSE api' = [api EXCEPT !.stage = "answered", !.status = 200,
                                  !.messages = DbMessages(api.conversationId)]
    /\ UNCHANGED <<storeVars, turnVars, ctx, workers, client, proxy, chatCtx>>
    /\ UNCHANGED <<dialog, oauth, auth>>

--------------------------------------------------------------------------
(* The connect dialogs (src/components/github-connect-dialog.tsx,           *)
(* notion-connect-dialog.tsx, google-docs-connect-dialog.tsx and the Gmail  *)
(* dialog of user-dropdown.tsx).                                           *)

Dialogs == {"github", "notion", "gmail", "docs"}

\* process.env.NEXT_PUBLIC_API_URL || 'http://localhost:8000'
BackendOrigin == "http://localhost:8000"

\* window.location.origin of the page that shows the dialog
WindowOrigin == "http://localhost:3000"

Origins == {BackendOrigin, WindowOrigin, "https://other.example"}

\* event.data.type the handler of a dialog compares with
SuccessType(kind) ==
    CASE kind = "github" -> "GITHUB_AUTH_SUCCESS"
      [] kind = "notion" -> "NOTION_AUTH_SUCCESS"
      [] kind = "gmail" -> "GMAIL_AUTH_SUCCESS"
      [] kind = "docs" -> "GOOGLE_DOCS_AUTH_SUCCESS"

ErrorType(kind) ==
    CASE kind = "github" -> "GITHUB_AUTH_ERROR"
      [] kind = "notion" -> "NOTION_AUTH_ERROR"
      [] kind = "gmail" -> "GMAIL_AUTH_ERROR"
      [] kind = "docs" -> "GOOGLE_DOCS_AUTH_ERROR"

\* the type fields of the messages a window may receive; the last two are the
\* ones the Gmail callback route posts
MessageTypes ==
    {SuccessType(k) : k \in Dialogs} \cup {ErrorType(k) : k \in Dialogs}
        \cup {"GMAIL_OAUTH_SUCCESS", "GMAIL_OAUTH_ERROR"}

NoEvent == [message |-> FALSE, origin |-> None, type |-> None]

\* useState(false), useState(false), useState('idle'); popup is the window
\* opened by window.open ("blocked" when it returned null), interval the
\* checkClosed poll, timer the setTimeout before the status check, timeout the
\* five-minute timeout of the Google Docs dialog, listener the 'message'
\* listener, checks the status requests in flight, event the step just taken
NoDialog ==
    [kind |-> "github", open |-> FALSE, isConnecting |-> FALSE, isConnected |-> FALSE,
     connectionStatus |-> "idle", popup |-> "none", interval |-> FALSE,
     timer |-> FALSE, timeout |-> FALSE, listener |-> FALSE, checks |-> 0,
     event |-> NoEvent]

DialogFrame ==
    /\ UNCHANGED <<storeVars, turnVars, ctx, workers, client, proxy, chatCtx>>
    /\ UNCHANGED <<api, oauth, auth>>

\* the dialog is opened or closed; the effect on [open, user] checks the
\* connection when it opens
onOpenChange(open) ==
    /\ dialog.open # open
    /\ open => dialog.checks < MaxChecks
    /\ dialog' = [dialog EXCEPT !.open = open,
                                !.checks = IF open THEN @ + 1 ELSE @,
                                !.event = NoEvent]
    /\ DialogFrame

\* checkGitHubConnection / checkNotionConnection / checkGmailConnection /
\* checkDocsConnection after the fetch: result is "connected" or "idle" when
\* response.ok, "failed" when the response is not ok or the fetch throws
checkConnection(result) ==
    /\ dialog.checks > 0
    /\ dialog' = IF result = "failed"
                 THEN [dialog EXCEPT !.checks = @ - 1, !.event = NoEvent]
                 ELSE [dialog EXCEPT !.checks = @ - 1, !.event = NoEvent,
                                     !.isConnected = (result = "connected"),
                                     !.connectionStatus = result]
    /\ DialogFrame

\* handleConnectGitHub / handleConnectNotion / handleConnectGmail /
\* handleConnectDocs: opened is whether window.open returned a window
handleConnect(opened) ==
    /\ dialog.open
    /\ ~dialog.isConnecting                    \* disabled={isConnecting}
    /\ dialog.connectionStatus # "connected"   \* else the button shown is Disconnect
    /\ dialog' =
          IF dialog.kind = "docs"
          THEN IF opened
               THEN [dialog EXCEPT !.isConnecting = TRUE, !.connectionStatus = "connecting",
                                   !.popup = "open", !.timeout = TRUE, !.listener = TRUE,
                                   !.event = NoEvent]
               ELSE \* throw new Error('Popup blocked by browser...'), caught
                    [dialog EXCEPT !.isConnecting = FALSE, !.connectionStatus = "error",
                                   !.popup = "blocked", !.event = NoEvent]
          ELSE [dialog EXCEPT !.isConnecting = TRUE, !.connectionStatus = "connecting",
                              !.popup = IF opened THEN "open" ELSE "blocked",
                              !.interval = TRUE, !.listener = TRUE, !.event = NoEvent]
    /\ DialogFrame

\* the popup is closed, by the user or by the page it shows
PopupCloses ==
    /\ dialog.popup = "open"
    /\ dialog' = [dialog EXCEPT !.popup = "closed", !.event = NoEvent]
    /\ DialogFrame

\* const checkClosed = setInterval(...): a tick that finds authWindow?.closed
checkClosed ==
    /\ dialog.interval
    /\ dialog.popup = "closed"
    /\ dialog' = [dialog EXCEPT !.interval = FALSE, !.isConnecting = FALSE,
                                !.timer = TRUE, !.event = NoEvent]
    /\ DialogFrame

\* setTimeout(() => { checkGitHubConnection() }, 1000) fires
CheckAfterClose ==
    /\ dialog.timer
    /\ dialog.checks < MaxChecks
    /\ dialog' = [dialog EXCEPT !.timer = FALSE, !.checks = @ + 1, !.event = NoEvent]
    /\ DialogFrame

\* the timeoutId of the Google Docs dialog fires after maxWaitTime
OAuthTimeout ==
    /\ dialog.timeout
    /\ dialog' = [dialog EXCEPT !.timeout = FALSE, !.isConnecting = FALSE,
                                !.connectionStatus = "error", !.listener = FALSE,
                                !.event = NoEvent]
    /\ DialogFrame

\* Mutant of AcceptsOrigin: the origin of the message is not looked at
AcceptsAnyOrigin(kind, origin) == TRUE

\* if (event.origin !== backendOrigin) return; the Google Docs dialog:
\* if (event.origin !== backendOrigin && event.origin !== window.location.origin) return
AcceptsOrigin(kind, origin) ==
    origin = BackendOrigin \/ (kind = "docs" /\ origin = WindowOrigin)

\* const handleMessage = (event: MessageEvent) => ...: the window receives a
\* message while the listener is registered
handleMessage(origin, type) ==
    /\ dialog.listener
    /\ LET k == dialog.kind
           event == [message |-> TRUE, origin |-> origin, type |-> type]
           settled == [dialog EXCEPT
                         !.isConnecting = FALSE,
                         !.popup = IF k = "gmail" /\ @ = "open" THEN "closed" ELSE @,
                         !.interval = FALSE,
                         !.timeout = FALSE,
                         !.listener = FALSE,
                         !.open = IF k \in {"github", "notion"} THEN FALSE ELSE @,
                         !.event = event]
       IN dialog' =
            IF ~AcceptsOrigin(k, origin) THEN [dialog EXCEPT !.event = event]
            ELSE IF type = SuccessType(k)
            THEN [settled EXCEPT !.isConnected = TRUE, !.connectionStatus = "connected"]
            ELSE IF type = ErrorType(k)
            THEN [settled EXCEPT !.connectionStatus = "error"]
            ELSE [dialog EXCEPT !.event = event]
    /\ DialogFrame

--------------------------------------------------------------------------
(* The Gmail OAuth callback (src/app/api/auth/gmail/callback/route.ts).     *)
(* The route answers with a page whose script posts a message to the       *)
(* opener.  Values are written into the script between quotes as they are, *)
(* so a text is modelled as the chunks that matter to the script: "plain"  *)
(* characters, a "quote" (an apostrophe, which ends the literal early and  *)
(* leaves the script malformed), and a "breakout" (text that ends the      *)
(* literal and the call, posts a message of type GMAIL_OAUTH_SUCCESS and   *)
(* opens a literal again, leaving the script well formed).                 *)

OAuthSuccess == "GMAIL_OAUTH_SUCCESS"

OAuthError == "GMAIL_OAUTH_ERROR"

\* texts of the error query parameter; <<>> is an absent (or empty) parameter
ErrorParams == {<<>>, <<"plain">>, <<"plain", "quote", "plain">>, <<"breakout">>}

\* userInfo.email as returned by Google: with or without an apostrophe
Emails == {<<"plain">>, <<"plain", "quote", "plain">>}

\* the page returned: postMessage({type: '<type>', error | email: '<text>'},
\* FRONTEND_URL); window.close();
Page(type, text) == [type |-> type, text |-> text]

NoPage == Page(None, <<>>)

\* what running the script of a page posts, in order: nothing when there is no
\* opener (window.opener?.postMessage) or the script is malformed, else the
\* message of the template followed by those of the breakouts
RECURSIVE Breakouts(_)
Breakouts(text) ==
    IF text = <<>> THEN <<>>
    ELSE (IF Head(text) = "breakout" THEN <<OAuthSuccess>> ELSE <<>>)
             \o Breakouts(Tail(text))

Posts(page, opener) ==
    IF ~opener \/ (\E i \in 1..Len(page.text) : page.text[i] = "quote")
    THEN <<>>
    ELSE <<page.type>> \o Breakouts(page.text)

NoOauth ==
    [stage |-> "idle", error |-> <<>>, code |-> FALSE, state |-> FALSE,
     opener |-> FALSE, exchanged |-> FALSE, stored |-> FALSE, page |-> NoPage,
     posted |-> <<>>]

OAuthFrame ==
    /\ UNCHANGED <<storeVars, turnVars, ctx, workers, client, proxy, chatCtx>>
    /\ UNCHANGED <<api, dialog, auth>>

\* a browser window, a popup with an opener or not, requests
\* /api/auth/gmail/callback?code=..&state=..&error=..
CallbackRequest(error, code, state, opener) ==
    /\ oauth.stage \in {"idle", "ran"}
    /\ oauth' = [NoOauth EXCEPT !.stage = "requested", !.error = error, !.code = code,
                                !.state = state, !.opener = opener]
    /\ OAuthFrame

\* export async function GET(request): the page for a request, given the
\* outcomes of the token exchange, of the userinfo request and of store-tokens
\* ("ok", "not_ok", "throws"; info: "ok", "apostrophe", "throws")
CallbackPage(error, code, state, token, info, store) ==
    IF error # <<>> THEN Page(OAuthError, error)
    ELSE IF ~code \/ ~state THEN Page(OAuthError, <<"plain">>)
    ELSE IF token # "ok" \/ info = "throws" \/ store # "ok"
    THEN Page(OAuthError, <<"plain">>)      \* catch: 'Failed to complete OAuth'
    ELSE Page(OAuthSuccess, IF info = "ok" THEN <<"plain">> ELSE <<"plain", "quote", "plain">>)

\* the route answers the request
GmailCallbackGET(token, info, store) ==
    /\ oauth.stage = "requested"
    /\ LET reached == oauth.error = <<>> /\ oauth.code /\ oauth.state
           exchanged == reached /\ token = "ok"
       IN oauth' = [oauth EXCEPT
                      !.stage = "answered",
                      !.exchanged = exchanged,
                      !.stored = exchanged /\ info # "throws" /\ store = "ok",
                      !.page = CallbackPage(oauth.error, oauth.code, oauth.state,
                                            token, info, store)]
    /\ OAuthFrame

\* the browser runs the script of the page
RunScript ==
    /\ oauth.stage = "answered"
    /\ oauth' = [oauth EXCEPT !.stage = "ran", !.posted = Posts(oauth.page, oauth.opener)]
    /\ OAuthFrame

--------------------------------------------------------------------------
(* AuthContext (src/contexts/AuthContext.tsx): user, session and the two   *)
(* localStorage items.                                                     *)

\* session is None or whether it has an access_token; stored_user and
\* stored_session are the localStorage items auth_user and auth_session;
\* signingIn is the user of the signin request in flight, signingOut whether
\* signOut awaits the backend, completed the last operation that completed
\* and how the backend call of signOut ended
NoAuth ==
    [user |-> None, session |-> None, stored_user |-> None, stored_session |-> None,
     signingIn |-> None, signingOut |-> FALSE, completed |-> None, backend |-> None]

AuthFrame ==
    /\ UNCHANGED <<storeVars, turnVars, ctx, workers, client, proxy, chatCtx>>
    /\ UNCHANGED <<api, dialog, oauth>>

\* const signIn, up to the await of the request
signIn(u) ==
    /\ auth.signingIn = None
    /\ auth' = [auth EXCEPT !.signingIn = u, !.completed = None]
    /\ AuthFrame

\* signIn after the await: response.data.success with a session that has an
\* access_token or none, or an error thrown
SignInReply(success, session) ==
    /\ auth.signingIn # None
    /\ auth' = IF success
               THEN [auth EXCEPT !.user = auth.signingIn, !.session = session,
                                 !.stored_user = auth.signingIn,
                                 !.stored_session = session,
                                 !.signingIn = None, !.completed = "signIn"]
               ELSE [auth EXCEPT !.signingIn = None, !.completed = "signIn"]
    /\ AuthFrame

\* Mutant of ClearLocalState: the state is cleared after the backend call only,
\* not in a finally block
ClearLocalStateInTry(a, backend) ==
    IF backend = "failed"
    THEN [a EXCEPT !.signingOut = FALSE, !.completed = "signOut", !.backend = backend]
    ELSE [a EXCEPT !.user = None, !.session = None, !.stored_user = None,
                   !.stored_session = None, !.signingOut = FALSE,
                   !.completed = "signOut", !.backend = backend]

\* finally { setUser(null); setSession(null); localStorage.removeItem('auth_user');
\* localStorage.removeItem('auth_session') }
ClearLocalState(a, backend) ==
    [a EXCEPT !.user = None, !.session = None, !.stored_user = None,
              !.stored_session = None, !.signingOut = FALSE,
              !.completed = "signOut", !.backend = backend]

\* const signOut: the backend is called if (session?.access_token), else the
\* finally block runs at once
signOut ==
    /\ ~auth.signingOut
    /\ auth' = IF auth.session = "access_token"
               THEN [auth EXCEPT !.signingOut = TRUE, !.completed = None]
               ELSE ClearLocalState(auth, "skipped")
    /\ AuthFrame

\* signOut after the await of axios.post(`${API_URL}/auth/signout`)
SignOutReply(backend) ==
    /\ auth.signingOut
    /\ auth' = ClearLocalState(auth, backend)
    /\ AuthFrame

PagesIdle ==
    /\ api = NoApi
    /\ dialog = NoDialog
    /\ oauth = NoOauth
    /\ auth = NoAuth

SideIdle ==
    /\ PagesIdle
    /\ ctx = NoCtx
    /\ workers = NoWorkers
    /\ client = NoClient
    /\ proxy = NoProxy
    /\ chatCtx = NoChat

--------------------------------------------------------------------------
(* Spec: the store under creation, access bookkeeping and the searches with *)
(* their SQL default arguments.                                            *)

NoCall ==
    [q |-> E1, user |-> "u1", types |-> MemoryTypes, conv |-> "c1",
     th |-> DefaultThreshold, count |-> DefaultCount, tie |-> "asc"]

Init ==
    /\ userMem = <<>>
    /\ convMem = BulkConvMem(3)
    /\ summaries = BulkSummaries(3)
    /\ hist = <<>>
    /\ lastOp = NoOp
    /\ call = NoCall
    /\ TurnIdle
    /\ SideIdle

Next ==
    \/ \E item \in MemoryItems : CreateUserMemory(item)
    \/ \E u \in Users, id \in 1..MaxUserMem : update_memory_access(u, id)
    \/ \E q \in {E1, E2}, u \in Users :
          SearchUserMemory(q, u, MemoryTypes, DefaultThreshold, DefaultCount, "asc")
    \/ \E u \in Users :
          SearchConversationMemory(E1, u, "c1", DefaultThreshold, DefaultCount, "asc")
    \/ \E u \in Users :
          SearchConversationSummaries(E1, u, DefaultSummaryThreshold, DefaultSummaryCount, "asc")

Spec == Init /\ [][Next]_vars

--------------------------------------------------------------------------
(* SpecSearch: the three searches as pure functions of a pre-populated     *)
(* store, the query, the threshold and the requested row count.            *)

BulkSizes == {0, 3, CapSummaries + 4, CapConv + 5, MaxRows}

Queries == {E1, E2, E5}

Thresholds == {0, DefaultSummaryThreshold, DefaultThreshold, 96}

Counts == {-1, 0, 1, DefaultCount, CapUser + 10}

TypeFilters == {MemoryTypes, {"preference"}}

InitSearch ==
    /\ \E n \in BulkSizes :
          /\ userMem = BulkUserMem(n)
          /\ convMem = BulkConvMem(n)
          /\ summaries = BulkSummaries(n)
          /\ hist = [i \in 1..n |-> [importance |-> DefaultImportance,
                                     access_count |-> 0, calls |-> 0]]
    /\ lastOp = NoOp
    /\ call \in [q : Queries, user : Users, types : TypeFilters, conv : Conversations,
                  th : Thresholds, count : Counts, tie : TieOrders]
    /\ TurnIdle
    /\ SideIdle

NextSearch ==
    \/ SearchUserMemory(call.q, call.user, call.types, call.th, call.count, call.tie)
    \/ SearchConversationMemory(call.q, call.user, call.conv, call.th, call.count, call.tie)
    \/ SearchConversationSummaries(call.q, call.user, call.th, call.count, call.tie)

SpecSearch == InitSearch /\ [][NextSearch]_vars

--------------------------------------------------------------------------
(* SpecTurn: turns processed one after the other by the chat backend. *)

InitTurn ==
    /\ userMem = BulkUserMem(3)
    /\ convMem = <<>>
    /\ summaries = <<>>
    /\ hist = [i \in 1..3 |-> [importance |-> DefaultImportance,
                               access_count |-> 0, calls |-> 0]]
    /\ lastOp = NoOp
    /\ call = NoCall
    /\ TurnIdle
    /\ SideIdle

NextTurn ==
    \/ \E ep \in Endpoints, m \in Messages, c \in {None, "c1"}, am \in BOOLEAN,
          apps \in AppSelections :
          ReceiveTurn(ep, m, "u1", c, am, apps)
    \/ SimpleChat
    \/ PersistSimpleTurn
    \/ \E raises \in BOOLEAN : DetectIntent(raises)
    \/ \E raises \in BOOLEAN : GetContext(raises)
    \/ \E connected \in BOOLEAN : Kickoff(connected)
    \/ ToolWait
    \/ \E outcome \in KickoffOutcomes, e \in ExceptionTexts : ToolReturn(outcome, e)
    \/ \E raises \in BOOLEAN : StoreTurn(raises)
    \/ \E raises \in BOOLEAN : Fallback(raises)

SpecTurn == InitTurn /\ [][NextTurn]_vars

--------------------------------------------------------------------------
(* SpecContext: the contextual message as a function of what the three    *)
(* tiers contribute.                                                      *)

TierChars == {0, 60, 100, ContextLimit + 50}

EmptyStore ==
    /\ userMem = <<>>
    /\ convMem = <<>>
    /\ summaries = <<>>
    /\ hist = <<>>
    /\ lastOp = NoOp
    /\ call = NoCall

InitContext ==
    /\ EmptyStore
    /\ TurnIdle
    /\ ctx \in [tiers : TierChars \X TierChars \X TierChars, conversation : BOOLEAN,
                 out : {<<>>}, built : {FALSE}]
    /\ workers = NoWorkers
    /\ client = NoClient
    /\ proxy = NoProxy
    /\ chatCtx = NoChat
    /\ PagesIdle

NextContext == BuildContextualMessage

SpecContext == InitContext /\ [][NextContext]_vars

--------------------------------------------------------------------------
(* SpecWriters: turn recorders and summarization passes of two workers,   *)
(* interleaved.                                                           *)

InitWriters ==
    /\ EmptyStore
    /\ TurnIdle
    /\ SideIdle

NextWriters ==
    \/ \E w \in Workers, u \in Users, c \in Conversations : BeginRecord(w, u, c)
    \/ \E w \in Workers : FinishRecord(w)
    \/ \E w \in Workers, u \in Users, c \in Conversations : BeginSummarize(w, u, c)
    \/ \E w \in Workers : FinishSummarize(w)

SpecWriters == InitWriters /\ [][NextWriters]_vars

--------------------------------------------------------------------------
(* SpecProxy: the Chat component and other callers posting to /api/chat.  *)

InitProxy ==
    /\ EmptyStore
    /\ TurnIdle
    /\ ctx = NoCtx
    /\ workers = NoWorkers
    /\ client \in [agentMode : {FALSE}, selectedApps : {<<>>}, showAppDropdown : {FALSE},
                    isLoading : {FALSE}, userId : {"u1"},
                    currentConversationId : {None, "c1"}, shown : {"none"}]
    /\ proxy = NoProxy
    /\ chatCtx = NoChat
    /\ PagesIdle

NextProxy ==
    \/ toggleAgentMode
    \/ \E open \in BOOLEAN : setShowAppDropdown(open)
    \/ \E app \in Apps : handleAppSelect(app)
    \/ confirmApps
    \/ cancelApps
    \/ \E input \in Inputs : handleSubmit(input)
    \/ \E body \in ApiBodies, authorization \in BOOLEAN : ApiPost(body, authorization)
    \/ \E backendStatus \in {200, 500} : POST(backendStatus)

SpecProxy == InitProxy /\ [][NextProxy]_vars

--------------------------------------------------------------------------
(* SpecChat: the chat page of a signed-in user; conversations are selected, *)
(* created and reloaded while submissions are in flight.                   *)

InitChat ==
    /\ EmptyStore
    /\ TurnIdle
    /\ ctx = NoCtx
    /\ workers = NoWorkers
    /\ client = [NoClient EXCEPT !.userId = "u1", !.currentConversationId = "c1"]
    /\ proxy = NoProxy
    /\ chatCtx = [NoChat EXCEPT !.conversations = <<"c1", "c2">>,
                             !.currentMessages = DbMessages("c1")]
    /\ PagesIdle

NextChat ==
    \/ \E input \in {<<" ", " ">>, <<"h", "i">>} : handleSubmit(input)
    \/ \E backendStatus \in {200, 500} : POST(backendStatus)
    \/ \E c \in Conversations : selectConversation(c)
    \/ reloadCurrentConversation
    \/ \E c \in AllConversations, failed \in BOOLEAN : MessagesReply(c, failed)
    \/ createNewConversation
    \/ \E failed \in BOOLEAN : ConversationCreated(failed)

SpecChat == InitChat /\ [][NextChat]_vars

\* every request of the page is answered: the fetch of handleSubmit and the
\* supabase queries settle
FairChat ==
    /\ WF_vars(\E backendStatus \in {200, 500} : POST(backendStatus))
    /\ WF_vars(\E c \in AllConversations, failed \in BOOLEAN : MessagesReply(c, failed))
    /\ WF_vars(\E failed \in BOOLEAN : ConversationCreated(failed))

SpecChatFair == SpecChat /\ FairChat

--------------------------------------------------------------------------
(* SpecMessages: callers with and without a bearer id request the messages  *)
(* of conversations of their own, of other users, and of none.             *)

Authorizations ==
    {NoHeader, Header(<<>>), Header(<<"Bearer ">>)}
        \cup {Header(<<"Bearer ", u>>) : u \in Users} \cup {Header(<<u>>) : u \in Users}

InitMessages ==
    /\ EmptyStore
    /\ TurnIdle
    /\ ctx = NoCtx
    /\ workers = NoWorkers
    /\ client = NoClient
    /\ proxy = NoProxy
    /\ chatCtx = NoChat
    /\ api \in {[NoApi EXCEPT !.owners = o] : o \in [Conversations -> Users \cup {None}]}
    /\ dialog = NoDialog
    /\ oauth = NoOauth
    /\ auth = NoAuth

NextMessages ==
    \/ \E a \in Authorizations, c \in RequestedIds : GetMessages(a, c)
    \/ \E convError \in BOOLEAN, error \in BOOLEAN : MessagesGET(convError, error)

SpecMessages == InitMessages /\ [][NextMessages]_vars

--------------------------------------------------------------------------
(* SpecConnect: one of the connect dialogs of a signed-in user.            *)

InitConnect ==
    /\ EmptyStore
    /\ TurnIdle
    /\ ctx = NoCtx
    /\ workers = NoWorkers
    /\ client = NoClient
    /\ proxy = NoProxy
    /\ chatCtx = NoChat
    /\ api = NoApi
    /\ dialog \in {[NoDialog EXCEPT !.kind = k] : k \in Dialogs}
    /\ oauth = NoOauth
    /\ auth = NoAuth

NextConnect ==
    \/ \E open \in BOOLEAN : onOpenChange(open)
    \/ \E result \in {"connected", "idle", "failed"} : checkConnection(result)
    \/ \E opened \in BOOLEAN : handleConnect(opened)
    \/ PopupCloses
    \/ checkClosed
    \/ CheckAfterClose
    \/ OAuthTimeout
    \/ \E origin \in Origins, type \in MessageTypes : handleMessage(origin, type)

SpecConnect == InitConnect /\ [][NextConnect]_vars

--------------------------------------------------------------------------
(* SpecOAuth: requests to the Gmail OAuth callback and the pages returned.  *)

OthersIdle ==
    /\ EmptyStore
    /\ TurnIdle
    /\ ctx = NoCtx
    /\ workers = NoWorkers
    /\ client = NoClient
    /\ proxy = NoProxy
    /\ chatCtx = NoChat
    /\ api = NoApi
    /\ dialog = NoDialog

InitOAuth ==
    /\ OthersIdle
    /\ oauth = NoOauth
    /\ auth = NoAuth

Outcomes == {"ok", "not_ok", "throws"}

NextOAuth ==
    \/ \E error \in ErrorParams, code \in BOOLEAN, state \in BOOLEAN, opener \in BOOLEAN :
          CallbackRequest(error, code, state, opener)
    \/ \E token \in Outcomes, info \in {"ok", "apostrophe", "throws"}, store \in Outcomes :
          GmailCallbackGET(token, info, store)
    \/ RunScript

SpecOAuth == InitOAuth /\ [][NextOAuth]_vars

--------------------------------------------------------------------------
(* SpecAuth: sign-ins and sign-outs of the AuthProvider, with the backend   *)
(* answering, failing, or not being called.                                *)

Sessions == {"access_token", "no_access_token"}

InitAuth ==
    /\ OthersIdle
    /\ oauth = NoOauth
    /\ auth \in {[NoAuth EXCEPT !.user = u, !.session = ss, !.stored_user = u,
                                 !.stored_session = ss] :
                     u \in Users, ss \in Sessions} \cup {NoAuth}

NextAuth ==
    \/ \E u \in Users : signIn(u)
    \/ \E success \in BOOLEAN, session \in Sessions : SignInReply(success, session)
    \/ signOut
    \/ \E backend \in {"succeeded", "failed"} : SignOutReply(backend)

SpecAuth == InitAuth /\ [][NextAuth]_vars

--------------------------------------------------------------------------
(* Properties of the memory store *)

SearchOps ==
    {"search_user_memory", "search_conversation_memory", "search_conversation_summaries"}

IsSearch == lastOp.op \in SearchOps

\* similarity of a returned row to the query of the last search
RowSimilarity(r) ==
    IF lastOp.table = "conversation_summaries"
    THEN Similarity(r.summary_embedding, lastOp.q)
    ELSE Similarity(r.embedding, lastOp.q)

\* the table the last operation worked on
LastTable ==
    IF lastOp.table = "conversation_summaries" THEN summaries
    ELSE IF lastOp.table = "conversation_memory_vectors" THEN convMem
    ELSE userMem

\* C4: no operation performed on behalf of one user returns or modifies a row
\* whose user_id is a different user.
C4_NoCrossUserAccess ==
    /\ \A i \in 1..Len(lastOp.result) : lastOp.result[i].user_id = lastOp.caller
    /\ \A id \in lastOp.modified : userMem[id].user_id = lastOp.caller

\* C5: the rows a search returns are sorted by descending similarity and none
\* of them has similarity <= threshold.
C5_SortedAboveThreshold ==
    IsSearch =>
        LET rs == lastOp.result
        IN /\ \A i \in 1..Len(rs) : RowSimilarity(rs[i]) > lastOp.th
           /\ \A i, j \in 1..Len(rs) :
                 i < j => RowSimilarity(rs[i]) >= RowSimilarity(rs[j])

\* C5 witness: a search returned rows of at least two different similarities
\* while a row of the same user sits exactly on the threshold and is left out.
C5_Witness ==
    /\ IsSearch
    /\ Len(lastOp.result) >= 3
    /\ RowSimilarity(lastOp.result[1]) > RowSimilarity(lastOp.result[Len(lastOp.result)])
    /\ \E i \in 1..Len(LastTable) :
          /\ LastTable[i].user_id = lastOp.caller
          /\ (IF lastOp.table = "conversation_summaries"
              THEN LastTable[i].summary_embedding ELSE LastTable[i].embedding) # None
          /\ RowSimilarity(LastTable[i]) = lastOp.th

ClaimedCap(op) ==
    IF op = "search_user_memory" THEN CapUser
    ELSE IF op = "search_conversation_memory" THEN CapConv
    ELSE CapSummaries

\* C6: each search returns at most min(limit, cap) rows, the cap being 50 for
\* user memory, 20 for conversation memory and 10 for summaries.
C6_RowCap ==
    (IsSearch /\ lastOp.status = "ok") =>
        Len(lastOp.result) <= Min(lastOp.match_count, ClaimedCap(lastOp.op))

\* C6 witness: a user-memory search asked for more than 50 rows, more than 50
\* rows pass its filter, and exactly 50 are returned.
C6_Witness ==
    /\ lastOp.op = "search_user_memory"
    /\ lastOp.match_count > CapUser
    /\ Len(lastOp.result) = CapUser
    /\ Cardinality({i \in 1..Len(userMem) :
            /\ userMem[i].user_id = lastOp.caller
            /\ userMem[i].embedding # None
            /\ RowSimilarity(userMem[i]) > lastOp.th}) > CapUser

\* min(1.0, initial + 0.1 * N), evaluated in float8
ClosedForm(initial, n) ==
    Float8Least(ImportanceOne, Float8Add(initial, Float8Times(ImportanceStep, n)))

\* 2^-52, the float8 machine epsilon, in units of 2^-56
Float8Epsilon == 2^4

\* C7, as stated: after N calls of update_memory_access on a row, its access
\* count is initial + N and its importance is min(1.0, initial + 0.1 * N).
C7_AccessClosedForm ==
    \A id \in 1..Len(userMem) :
        /\ userMem[id].access_count = hist[id].access_count + hist[id].calls
        /\ userMem[id].importance_score = ClosedForm(hist[id].importance, hist[id].calls)

\* C7, amended: after N calls of update_memory_access on a row, its access
\* count is initial + N and its importance is within N * 2^-52 of
\* min(1.0, initial + 0.1 * N); a memory of importance 0.9 has importance
\* exactly 1.0 after one or more accesses.
C7_AccessClosedFormRounded ==
    \A id \in 1..Len(userMem) :
        /\ userMem[id].access_count = hist[id].access_count + hist[id].calls
        /\ Float8Gap(userMem[id].importance_score,
                     ClosedForm(hist[id].importance, hist[id].calls))
              <= hist[id].calls * Float8Epsilon
        /\ (hist[id].importance = ImportanceHigh /\ hist[id].calls >= 1) =>
              userMem[id].importance_score = ImportanceOne

\* C7 witness: a memory created with importance 0.9 has importance exactly
\* 1.0 after one access, and a memory created with the default importance has
\* been accessed three times and is one float8 step below the closed form.
C7_Witness ==
    /\ \E id \in 1..Len(userMem) :
          /\ hist[id].importance = ImportanceHigh
          /\ hist[id].calls = 1
          /\ userMem[id].importance_score = ImportanceOne
    /\ \E id \in 1..Len(userMem) :
          /\ hist[id].importance = DefaultImportance
          /\ hist[id].calls = 3
          /\ Float8Gap(userMem[id].importance_score,
                       ClosedForm(DefaultImportance, 3)) = 8

\* C8: every user-memory row's importance score lies in [0, 1].
C8_ImportanceBounded ==
    \A id \in 1..Len(userMem) :
        /\ Float8Leq(ImportanceZero, userMem[id].importance_score)
        /\ Float8Leq(userMem[id].importance_score, ImportanceOne)

\* C8 witness: a row whose uncapped importance would have passed 1.0 (created
\* at 0.95, accessed) sits at 1.0.
C8_Witness ==
    \E id \in 1..Len(userMem) :
        /\ hist[id].importance = ImportanceNearOne
        /\ hist[id].calls >= 1
        /\ userMem[id].importance_score = ImportanceOne

\* C9: a row's access count never decreases; a step that changes a row is an
\* update_memory_access of that row and increments its access count by one;
\* in particular no search changes a row, and no row disappears.
C9_AccessCountMonotone ==
    [][ /\ Len(userMem') >= Len(userMem)
        /\ \A id \in 1..Len(userMem) :
              /\ userMem'[id].access_count >= userMem[id].access_count
              /\ userMem'[id] # userMem[id] =>
                    /\ lastOp'.op = "update_memory_access"
                    /\ id \in lastOp'.modified
                    /\ userMem'[id].access_count = userMem[id].access_count + 1
        /\ lastOp'.op \in SearchOps => userMem' = userMem ]_vars

\* C9 witness: a search has just returned a row that was accessed twice before.
C9_Witness ==
    /\ lastOp.op = "search_user_memory"
    /\ \E i \in 1..Len(lastOp.result) :
          /\ lastOp.result[i].access_count >= 2
          /\ userMem[lastOp.result[i].id] = lastOp.result[i]

--------------------------------------------------------------------------
(* Properties of the turn pipeline *)

IsService(a) == a \in Services

\* the service agents kicked off during the current turn
ServiceKickoffs == SelectSeq(kickoffs, IsService)

\* C1: with agent mode off, whatever the message and the app selection, no
\* agent is dispatched and serviceUsed is null.
C1_AgentOffNoDispatch ==
    (pc # "idle" /\ ~req.agent_mode) =>
        /\ kickoffs = <<>>
        /\ appIntent = None
        /\ resp.serviceUsed = None

\* C2: a turn dispatches to at most one service agent.
C2_AtMostOneServiceAgent == Len(ServiceKickoffs) <= 1

\* C2 witness: a finished turn whose message matches two services, sent with
\* two apps selected, that kicked off exactly one service agent.
C2_Witness ==
    /\ pc = "done"
    /\ Cardinality(MatchedServices(req.message)) >= 2
    /\ Cardinality(req.selected_apps) >= 2
    /\ Len(ServiceKickoffs) = 1
    /\ resp.serviceUsed = ServiceKickoffs[1]

\* C3: with agent mode on and a non-empty app selection, the turn is routed to
\* an app of the selection or to no app.
C3_AllowListRespected ==
    (pc # "idle" /\ req.agent_mode /\ req.selected_apps # {}) =>
        /\ appIntent \in req.selected_apps \cup {None}
        /\ \A i \in 1..Len(ServiceKickoffs) : ServiceKickoffs[i] \in req.selected_apps
        /\ resp.serviceUsed \in req.selected_apps \cup {None}

\* C10: every finished turn of a conversation has been written to conversation
\* memory, whether it succeeded, degraded or failed.
C10_FinishedTurnRecorded ==
    (pc = "done" /\ req.conversation_id # None) => recorded

\* C11: the text delivered to the user never contains raw exception text.
C11_NoRawExceptionText == resp.text.exception_chars = 0

\* C12: when the resolved service is not connected for the user, no service
\* agent is invoked, and the finished turn has status "error" and a text that
\* names the service.
C12_NotConnectedShortCircuit ==
    env.token = "NotConnected" =>
        /\ ServiceKickoffs = <<>>
        /\ pc = "done" => (resp.status = "error" /\ resp.text.names = appIntent)

\* the bounded wait of the tool call, in ticks
ToolWaitBound == 1

\* C13: a turn is never still waiting on its tool call after the bounded wait;
\* a turn whose tool call exceeded it ends with status "degraded", after a
\* single kickoff.
C13_BoundedToolWait ==
    env.waited > ToolWaitBound =>
        /\ pc # "tool"
        /\ Len(kickoffs) <= 1
        /\ pc = "done" => resp.status = "degraded"

\* C14: a turn during which a memory store operation failed ends with the
\* direct answer of fallback_simple_response (no service, no memory context),
\* unless that completion raised as well.
C14_StoreFailureStillAnswers ==
    (pc = "done" /\ env.storeFailed /\ ~env.fallbackRaised) =>
        /\ resp.kind = "fallback"
        /\ resp.status = "degraded"
        /\ resp.serviceUsed = None
        /\ resp.text.parts # <<>>

\* C14 witness: a finished turn whose context lookup or turn recording failed
\* after an app was detected, answered by the fallback.
C14_Witness ==
    /\ pc = "done"
    /\ env.storeFailed
    /\ appIntent # None
    /\ resp.kind = "fallback"

--------------------------------------------------------------------------
(* Properties of the contextual message *)

\* characters of a tier in the context that entered the message
Kept(tier) ==
    LET OfTier(g) == g.tier = tier IN Chars(SelectSeq(ctx.out, OfTier))

--------------------------------------------------------------------------
(* Properties of the concurrent writers *)

\* C17: there is at most one conversation summary row per (user, conversation).
C17_OneSummaryPerConversation ==
    \A i, j \in 1..Len(summaries) :
        (summaries[i].user_id = summaries[j].user_id
         /\ summaries[i].conversation_id = summaries[j].conversation_id) => i = j

\* C17 witness: a summarization pass that had found no summary tried to insert
\* one after another pass had inserted it, and was rejected.
C17_Witness ==
    /\ lastOp.op = "insert_summary"
    /\ lastOp.status = "error"
    /\ \E i \in 1..Len(summaries) : summaries[i].user_id = lastOp.caller

\* C18: within a conversation, turn numbers strictly increase in creation order.
C18_TurnNumbersIncrease ==
    \A i, j \in 1..Len(convMem) :
        (i < j /\ convMem[i].conversation_id = convMem[j].conversation_id) =>
            convMem[i].turn_number < convMem[j].turn_number

--------------------------------------------------------------------------
(* Properties of the /api/chat route *)

ModeFields == {"agent_mode", "selected_apps", "use_gmail_agent"}

\* C19: a request the route forwards reaches the backend with the agent_mode,
\* selected_apps and use_gmail_agent it came with.
C19_ModeFieldsForwarded ==
    (proxy.stage = "answered" /\ proxy.forwarded # NoBody) =>
        /\ proxy.request.fields \cap ModeFields \subseteq proxy.forwarded.fields
        /\ proxy.forwarded.agent_mode = proxy.request.agent_mode
        /\ proxy.forwarded.selected_apps = proxy.request.selected_apps
        /\ proxy.forwarded.use_gmail_agent = proxy.request.use_gmail_agent

\* C20: a request posted by Chat.handleSubmit is not answered with 400 and is
\* forwarded to the backend.
C20_ChatRequestAccepted ==
    (proxy.stage = "answered" /\ proxy.origin = "Chat") =>
        /\ proxy.status # 400
        /\ proxy.forwarded # NoBody

--------------------------------------------------------------------------
(* Properties of the chat page *)

\* C21: an accepted submission appends the user's message and then exactly one
\* assistant message, the backend's reply if the response was ok and else the
\* apology text, and isLoading returns to false.
C21_SubmissionSettles ==
    /\ [](client.isLoading => chatCtx.appended = <<"input">>)
    /\ []((~client.isLoading /\ chatCtx.appended # <<>>) =>
             chatCtx.appended =
                 <<"input", IF proxy.status = 200 THEN "response" ELSE "apology">>)
    /\ (client.isLoading ~> ~client.isLoading)

\* C21 witness: a submission has been answered with an error status; the list
\* ends with the user's message followed by the apology, and loading is over.
C21_Witness ==
    LET n == Len(chatCtx.currentMessages)
    IN /\ ~client.isLoading
       /\ proxy.origin = "Chat"
       /\ proxy.stage = "answered"
       /\ chatCtx.appended = <<"input", "apology">>
       /\ n >= 2
       /\ chatCtx.currentMessages[n - 1].content = "input"
       /\ chatCtx.currentMessages[n].content = "apology"

\* C22: when no message load, conversation insert or chat request is in flight,
\* every message of currentMessages belongs to currentConversationId.
C22_MessagesOfCurrentConversation ==
    (InFlight = 0 /\ chatCtx.creating = 0 /\ proxy.stage # "posted") =>
        \A i \in 1..Len(chatCtx.currentMessages) :
            chatCtx.currentMessages[i].conversation_id = client.currentConversationId

\* C23: while agent mode is off the app selection is empty, and no request of
\* the component carries agent_mode false with a selection.
C23_NoSelectionWhenOff ==
    /\ ~client.agentMode => client.selectedApps = <<>>
    /\ (proxy.origin = "Chat" /\ ~proxy.request.agent_mode) =>
           proxy.request.selected_apps = <<>>

--------------------------------------------------------------------------
(* Properties of the conversation messages route *)

\* the conversation requested exists and belongs to the user the header names
CallerOwnsConversation ==
    \E c \in Conversations, u \in Users :
        /\ api.conversationId = c
        /\ api.owners[c] = u
        /\ api.authorization \in {Header(<<"Bearer ", u>>), Header(<<u>>)}

\* C24: the route returns messages only for a conversation that exists and
\* belongs to the caller's bearer user id; any other request is answered 401
\* (no Authorization header) or 404, without messages.
C24_MessagesOnlyToOwner ==
    api.stage = "answered" =>
        /\ api.messages # <<>> => (CallerOwnsConversation /\ api.status = 200)
        /\ ~CallerOwnsConversation => (api.status \in {401, 404} /\ api.messages = <<>>)
        /\ ~api.authorization.present => api.status = 401

\* C24 witness: a caller with a bearer id asked for a conversation of another
\* user and was answered 404 without messages.
C24_Witness ==
    /\ api.stage = "answered"
    /\ api.authorization = Header(<<"Bearer ", "u1">>)
    /\ api.conversationId = "c1"
    /\ api.owners["c1"] = "u2"
    /\ api.status = 404
    /\ api.messages = <<>>

--------------------------------------------------------------------------
(* Properties of the connect dialogs *)

\* C25: a window message whose origin is not the backend origin changes none of
\* isConnected, isConnecting and connectionStatus.
C25_ForeignOriginIgnored ==
    [][(dialog'.event.message /\ dialog'.event.origin # BackendOrigin) =>
          /\ dialog'.isConnected = dialog.isConnected
          /\ dialog'.isConnecting = dialog.isConnecting
          /\ dialog'.connectionStatus = dialog.connectionStatus]_vars

\* C26: in the GitHub, Notion and Gmail dialogs, while connectionStatus is
\* 'connecting' something that ends the attempt is still to come: the popup is
\* open, the poll is about to see it closed, or a status check is scheduled or
\* in flight.
C26_ConnectingEnds ==
    (dialog.kind \in {"github", "notion", "gmail"}
     /\ dialog.connectionStatus = "connecting") =>
        \/ dialog.popup = "open"
        \/ dialog.interval /\ dialog.popup = "closed"
        \/ dialog.timer
        \/ dialog.checks > 0

--------------------------------------------------------------------------
(* Properties of the Gmail OAuth callback *)

\* C27: the page returned to a popup posts exactly one message: GMAIL_OAUTH_SUCCESS
\* when the code was exchanged and the backend accepted the tokens, and
\* GMAIL_OAUTH_ERROR in every other outcome.
C27_OneMessagePerResponse ==
    (oauth.stage = "ran" /\ oauth.opener) =>
        oauth.posted = <<IF oauth.exchanged /\ oauth.stored THEN OAuthSuccess
                         ELSE OAuthError>>

--------------------------------------------------------------------------
(* Properties of AuthContext *)

\* C28: when signOut has completed, user and session are null and auth_user and
\* auth_session are removed from localStorage, whether the backend call
\* succeeded, failed or was skipped.
C28_SignOutClears ==
    auth.completed = "signOut" =>
        /\ auth.user = None
        /\ auth.session = None
        /\ auth.stored_user = None
        /\ auth.stored_session = None

\* C28 witness: signOut called the backend, the call failed, and signOut
\* completed with the state cleared.
C28_Witness ==
    /\ auth.completed = "signOut"
    /\ auth.backend = "failed"
    /\ auth.user = None
    /\ auth.stored_session = None

====
